---- MODULE Spec2Model ----
(***************************************************************************)
(* State-machine model of forge-core: the git synchronisation engine       *)
(* (services/git_remote.rs), the execution-run lifecycle                   *)
(* (routes/execution_runs.rs), the execution_runs table                    *)
(* (db/models/execution_run.rs), the task store handlers and the kanban    *)
(* stream filter (routes/tasks.rs), the websocket loops and the profile    *)
(* file watcher (services/profile_loader/cache.rs).                        *)
(*                                                                         *)
(* The subsystems share one set of variables; each has a specification of  *)
(* its own (SpecGit, SpecRun, SpecStore, SpecKanban, ...) that leaves the  *)
(* variables of the other subsystems untouched.                            *)
(***************************************************************************)
EXTENDS Integers, FiniteSets, Sequences, TLC

VARIABLES
    \* ---- git repository (services/git_remote.rs) ----
    local,        \* refs/heads/<b>: tip of every local branch
    remoteRef,    \* refs/remotes/origin/<b>: remote-tracking ref, or NoRef
    tracked,      \* branches with a configured upstream
    origin,       \* tip of <b> on the remote itself
    current,      \* the branch HEAD points at
    dirty,        \* the working tree has uncommitted changes
    tree,         \* the commit the files of the working tree come from
    gitRes,       \* what the last git operation returned (with the state it started from)
    \* ---- execution runs (routes/execution_runs.rs) ----
    runs,         \* execution_runs rows, by run id
    procs,        \* execution_processes rows, in creation order
    runRes,       \* what the last execution-run handler returned
    \* ---- the store (tasks.rs handlers) ----
    tasks,          \* tasks rows, by task id
    forge_agents,   \* task ids with a forge_agents row
    attempts,       \* task_attempts rows, by attempt id
    aproc,          \* status of the latest execution process of each attempt
    worktrees,      \* the worktrees on disk, by the attempt they were made for
    dbWriter,       \* the transaction holding the store's write lock
    txn,            \* the rows as the open write transaction sees them
    del,            \* the delete_task calls in flight
    cas,            \* the create_task_and_start calls, by the task they create
    listing,        \* the last answer of get_tasks
    execution_runs, \* the rows of the execution_runs table
    resolved,       \* the last answer of resolve_container_ref
    created,        \* the last request served by create_execution_run
    ws,             \* the two websocket loops (logs, kanban), each with its client side and its upstream
    watch,          \* the profile file watcher, its channel, pending_reload and last_reload
    caches_by_path, \* ProfileCacheManager.caches_by_path, for one workspace path
    pcache,         \* the ProfileCache objects, by the caller that made them
    goc,            \* get_or_create calls
    rel,            \* the reload a cache's watcher thread runs
    disk,           \* the workspace on disk
    mcp,            \* the MCP BeltServer (mcp/belt/mod.rs), with the answer of its last call
    upd,            \* the update_task calls in flight
    arch,           \* the archive cleanup task of each task
    \* ---- kanban stream (routes/tasks.rs, handle_kanban_tasks_ws) ----
    agent_task_ids, \* the hidden set: Arc<RwLock<HashSet<Uuid>>>
    cacheWriter,    \* who holds the write lock of the hidden set
    committed,      \* the hidden set as of the last release of the write lock
    refresh,        \* the refresh task: its position and its query result
    filt,           \* the filter: its position, the message in hand, its loop state
    verdict,        \* what the filter did with the message, and the hidden set then
    tornRead        \* some read of the hidden set saw it between two writes of one update

gitVars == <<local, remoteRef, tracked, origin, current, dirty, tree, gitRes>>

runVars == <<runs, procs, runRes>>

storeVars == <<tasks, attempts, aproc, worktrees, dbWriter, txn, del>>

kanbanVars == <<agent_task_ids, cacheWriter, committed, refresh, filt, verdict, tornRead>>

boardVars == <<cas, listing>>

archVars == <<upd, arch>>

mcpVars == <<mcp>>

cacheVars == <<caches_by_path, pcache, goc, rel, disk>>

watchVars == <<watch>>

wsVars == <<ws>>

rowVars == <<execution_runs, resolved, created>>

vars == <<gitVars, runVars, storeVars, boardVars, archVars, forge_agents, kanbanVars, rowVars, wsVars, watchVars, cacheVars, mcpVars>>

\* What a subsystem's operations leave alone: the other subsystems' variables.
notGit == <<runVars, storeVars, boardVars, archVars, forge_agents, kanbanVars, rowVars, wsVars, watchVars, cacheVars, mcpVars>>
notRun == <<gitVars, storeVars, boardVars, archVars, forge_agents, kanbanVars, rowVars, wsVars, watchVars, cacheVars, mcpVars>>
notKanban == <<gitVars, runVars, storeVars, boardVars, archVars, rowVars, wsVars, watchVars, cacheVars, mcpVars>>
notStore == <<gitVars, runVars, kanbanVars, boardVars, archVars, rowVars, wsVars, watchVars, cacheVars, mcpVars>>
notBoard == <<gitVars, runVars, kanbanVars, archVars, rowVars, wsVars, watchVars, cacheVars, mcpVars>>
notArchive == <<gitVars, runVars, kanbanVars, boardVars, rowVars, wsVars, watchVars, cacheVars, mcpVars>>
notRows == <<gitVars, runVars, storeVars, boardVars, archVars, forge_agents, kanbanVars, wsVars, watchVars, cacheVars, mcpVars>>
notWs == <<gitVars, runVars, storeVars, boardVars, archVars, forge_agents, kanbanVars, rowVars, watchVars, cacheVars, mcpVars>>
notWatch == <<gitVars, runVars, storeVars, boardVars, archVars, forge_agents, kanbanVars, rowVars, wsVars, cacheVars, mcpVars>>
notCache == <<gitVars, runVars, storeVars, boardVars, archVars, forge_agents, kanbanVars, rowVars, wsVars, watchVars, mcpVars>>
notMcp == <<gitVars, runVars, storeVars, boardVars, archVars, forge_agents, kanbanVars, rowVars, wsVars, watchVars, cacheVars>>

(***************************************************************************)
(*                      GIT SYNCHRONISATION ENGINE                         *)
(***************************************************************************)

\* Bounds of the commit graph: commits on the remote line, local-only commits.
MaxRemote == 2
MaxLocal == 1

Branches == {"main", "feat"}
\* "no such ref": an integer below every commit index
NoRef == 0 - 1

\* PullStrategy (git_remote.rs:311)
PullStrategy == {"Merge", "Rebase", "FastForward"}

\* A tip is `loc` local-only commits on top of commit `base` of the remote line.
Tip == [base : 0..MaxRemote, loc : 0..MaxLocal]
RTip(i) == [base |-> i, loc |-> 0]

\* The commits reachable from a tip.
Reach(t) == {<<"m", i, 0>> : i \in 0..t.base} \cup {<<"l", t.base, j>> : j \in 1..t.loc}

\* repo.graph_ahead_behind(local_oid, remote_oid): the sizes of the two sides
\* of the symmetric difference of the reachable sets.
graph_ahead_behind(l, r) ==
    [ahead  |-> Cardinality(Reach(l) \ Reach(r)),
     behind |-> Cardinality(Reach(r) \ Reach(l))]

\* branch.upstream() succeeds: an upstream is configured and its ref exists.
HasUpstream(b) == b \in tracked /\ remoteRef[b] # NoRef

\* (variant: every local branch counts as tracked)
get_tracked_branches_All == Branches

\* git_service.get_tracked_branches
get_tracked_branches == {b \in Branches : HasUpstream(b)}

\* ---- get_sync_status: the four flags of one BranchSyncStatus ----
is_diverged(ahead, behind) == ahead > 0 /\ behind > 0
is_up_to_date(ahead, behind) == ahead = 0 /\ behind = 0
needs_pull(ahead, behind) == behind > 0
needs_push(ahead, behind) == ahead > 0 /\ behind = 0

BranchSyncStatus(b) ==
    LET ab == graph_ahead_behind(local[b], RTip(remoteRef[b]))
    IN [branch_name   |-> b,
        local_sha     |-> local[b],
        remote_sha    |-> RTip(remoteRef[b]),
        ahead_count   |-> ab.ahead,
        behind_count  |-> ab.behind,
        is_diverged   |-> is_diverged(ab.ahead, ab.behind),
        is_up_to_date |-> is_up_to_date(ab.ahead, ab.behind),
        needs_pull    |-> needs_pull(ab.ahead, ab.behind),
        needs_push    |-> needs_push(ab.ahead, ab.behind)]

get_sync_status ==
    /\ gitRes' = [op |-> "sync",
                   current_branch |-> current,
                   branches |-> {BranchSyncStatus(b) : b \in get_tracked_branches}]
    /\ UNCHANGED <<local, remoteRef, tracked, origin, current, dirty, tree>>
    /\ UNCHANGED notGit

\* ---- fetch ----
\* One fetch with refspec +refs/heads/<b>:refs/remotes/origin/<b>.
fetch_branch(refs, b) == [refs EXCEPT ![b] = origin[b]]

RECURSIVE FetchAll(_, _)
FetchAll(refs, bs) ==
    IF bs = {} THEN refs
    ELSE LET b == CHOOSE x \in bs : TRUE
         IN FetchAll(fetch_branch(refs, b), bs \ {b})

\* fetch_project: the branches fetched before a failing fetch stay fetched.
fetch_project ==
    \E done \in SUBSET get_tracked_branches :
        /\ remoteRef' = FetchAll(remoteRef, done)
        /\ gitRes' = IF done = get_tracked_branches
                       THEN [op |-> "fetch", ok |-> TRUE,
                             branches_fetched |-> Cardinality(get_tracked_branches)]
                       ELSE [op |-> "fetch", ok |-> FALSE, branches_fetched |-> 0]
        /\ UNCHANGED <<local, tracked, origin, current, dirty, tree>>
        /\ UNCHANGED notGit

\* ---- pull_branch ----
\* (variant: the no-op also asks for ahead = 0)
AlreadyUpToDate_Strict(ahead, behind) == behind = 0 /\ ahead = 0

\* "Check if pull is needed" (git_remote.rs:196)
AlreadyUpToDate(ahead, behind) == behind = 0

\* (variant: divergence compares the two counts)
Diverged_Compare(ahead, behind) == ahead > behind

\* "Check for divergence" (git_remote.rs:207)
Diverged(ahead, behind) == ahead > 0

\* (variant: the merge records a merge commit on top of the upstream tip)
MergeFfOnly_MergeCommit(l, u) == [base |-> u, loc |-> 1]

\* git merge --ff-only HEAD@{u} / git rebase HEAD@{u} on the checked-out branch
MergeFfOnly(l, u) == RTip(u)
Rebase(l, u) == [base |-> u, loc |-> l.loc]

PullErr(b, s, kind, fetched, ab) ==
    [op |-> "pull", branch |-> b, strategy |-> s, success |-> FALSE, error |-> kind,
     commits_pulled |-> 0, fetched |-> fetched, ahead |-> ab.ahead, behind |-> ab.behind,
     ran |-> "none", pre_local |-> local, pre_tree |-> tree]

PullOk(b, s, n, ab, ran) ==
    [op |-> "pull", branch |-> b, strategy |-> s, success |-> TRUE, error |-> "none",
     commits_pulled |-> n, fetched |-> TRUE, ahead |-> ab.ahead, behind |-> ab.behind,
     ran |-> ran, pre_local |-> local, pre_tree |-> tree]

NoCount == [ahead |-> 0, behind |-> 0]

\* (variant: the branch is compared before the working tree is checked)
safety_checks_BranchFirst(b) ==
    IF current # b THEN "wrong_branch" ELSE IF dirty THEN "dirty" ELSE "none"

\* "Safety check: working tree must be clean", then "Get current branch (must
\* match requested branch)": the error pull_branch returns with before the
\* fetch, "none" when both checks pass.
safety_checks(b) ==
    IF dirty THEN "dirty" ELSE IF current # b THEN "wrong_branch" ELSE "none"

pull_branch(b, s, fetchOk, cmdOk) ==
    IF safety_checks(b) # "none" THEN
        /\ gitRes' = PullErr(b, s, safety_checks(b), FALSE, NoCount)
        /\ UNCHANGED <<local, remoteRef, tree>>
    ELSE IF ~fetchOk THEN
        /\ gitRes' = PullErr(b, s, "fetch_failed", FALSE, NoCount)
        /\ UNCHANGED <<local, remoteRef, tree>>
    ELSE IF b \notin tracked THEN
        \* the fetch has written the remote-tracking ref; branch.upstream() fails
        /\ remoteRef' = fetch_branch(remoteRef, b)
        /\ gitRes' = PullErr(b, s, "no_upstream", TRUE, NoCount)
        /\ UNCHANGED <<local, tree>>
    ELSE
        LET u  == origin[b]
            ab == graph_ahead_behind(local[b], RTip(u))
        IN /\ remoteRef' = fetch_branch(remoteRef, b)
           /\ IF AlreadyUpToDate(ab.ahead, ab.behind) THEN
                  /\ gitRes' = PullOk(b, s, 0, ab, "none")
                  /\ UNCHANGED <<local, tree>>
              ELSE IF Diverged(ab.ahead, ab.behind) THEN
                  /\ gitRes' = PullErr(b, s, "diverged", TRUE, ab)
                  /\ UNCHANGED <<local, tree>>
              ELSE IF ~cmdOk \/ (s \in {"Merge", "FastForward"} /\ ab.ahead > 0) THEN
                  \* the git command failed (--ff-only refuses a non-fast-forward)
                  /\ gitRes' = PullErr(b, s, "git_failed", TRUE, ab)
                  /\ UNCHANGED <<local, tree>>
              ELSE IF s \in {"Merge", "FastForward"} THEN
                  /\ local' = [local EXCEPT ![b] = MergeFfOnly(local[b], u)]
                  /\ tree' = MergeFfOnly(local[b], u)
                  /\ gitRes' = PullOk(b, s, ab.behind, ab, "merge_ff_only")
              ELSE
                  /\ local' = [local EXCEPT ![b] = Rebase(local[b], u)]
                  /\ tree' = Rebase(local[b], u)
                  /\ gitRes' = PullOk(b, s, ab.behind, ab, "rebase")

PullBranch ==
    \E b \in Branches, s \in PullStrategy, fetchOk \in BOOLEAN, cmdOk \in BOOLEAN :
        /\ pull_branch(b, s, fetchOk, cmdOk)
        /\ UNCHANGED <<tracked, origin, current, dirty>>
        /\ UNCHANGED notGit

NoRes == [op |-> "none"]

GitInit ==
    /\ tracked \in SUBSET Branches
    /\ origin \in [Branches -> 0..MaxRemote]
    /\ remoteRef \in [Branches -> (0..MaxRemote) \cup {NoRef}]
    /\ local \in [Branches -> Tip]
    /\ \A b \in Branches :
          IF b \in tracked
          THEN /\ remoteRef[b] # NoRef
               /\ remoteRef[b] <= origin[b]
               /\ local[b].base <= remoteRef[b]
          ELSE /\ remoteRef[b] = NoRef
               /\ local[b].base <= origin[b]
    /\ current \in Branches
    /\ dirty \in BOOLEAN
    /\ tree = local[current]
    /\ gitRes = NoRes

GitNext == PullBranch \/ get_sync_status \/ fetch_project

\* The repository of a deployment whose git engine is not exercised.
GitIdle ==
    /\ tracked = {}
    /\ origin = [b \in Branches |-> 0]
    /\ remoteRef = [b \in Branches |-> NoRef]
    /\ local = [b \in Branches |-> RTip(0)]
    /\ current = "main"
    /\ dirty = FALSE
    /\ tree = RTip(0)
    /\ gitRes = NoRes

(***************************************************************************)
(*                        EXECUTION RUN LIFECYCLE                          *)
(***************************************************************************)

\* Bound: execution processes created in one behaviour.
MaxProcs == 3

\* The runs of a behaviour: the handlers touch the rows of one run only.
RunIds == {"r1"}
NoRow == [exists |-> FALSE, executor |-> "none"]

\* ExecutionProcessStatus, ExecutionProcessRunReason
ProcStatus == {"pending", "running", "completed", "failed", "killed"}
Terminal == {"completed", "failed", "killed"}
RunReason == {"setupscript", "codingagent"}

\* The indices of the processes of run r, oldest first.
ProcsOf(r) == {i \in 1..Len(procs) : procs[i].run = r}

\* ExecutionProcess::find_latest_by_execution_run_and_run_reason: the newest
\* process of the run with that run reason, whatever its status (0: none).
find_latest_by_execution_run_and_run_reason(r, reason) ==
    LET c == {i \in ProcsOf(r) : procs[i].run_reason = reason}
    IN IF c = {} THEN 0 ELSE CHOOSE i \in c : \A j \in c : j <= i

\* ExecutorProfileId: an executor and an optional variant.
Executors == {"e1", "e2"}
NoVariant == "none"
Variants == {NoVariant, "v1"}
Profiles == [executor : Executors, variant : Variants]
NoProfile == [executor |-> "none", variant |-> NoVariant]
Prompts == {"p1", "p2"}
NoSession == 0

\* A process row as the container service inserts it when it starts a process;
\* a coding-agent process records the profile of its action.
NewProcess(r, reason, profile) ==
    [run |-> r, run_reason |-> reason, status |-> "running", session |-> NoSession,
     executor |-> IF reason = "codingagent" THEN profile.executor ELSE NoProfile.executor,
     variant  |-> IF reason = "codingagent" THEN profile.variant ELSE NoProfile.variant]

\* ContainerService::stop_execution(process, status): the process gets `status`.
stop_execution(i, status) == [procs EXCEPT ![i].status = status]

\* ExecutionProcess::find_latest_session_id_by_execution_run: the session id of
\* the newest process of the run that has one (NoSession: none has).
find_latest_session_id_by_execution_run(r) ==
    LET c == {i \in ProcsOf(r) : procs[i].session # NoSession}
    IN IF c = {} THEN NoSession
       ELSE procs[CHOOSE i \in c : \A j \in c : j <= i].session

\* ExecutionProcess::latest_executor_profile_for_run: the profiles the query
\* can answer with: that of the newest coding-agent process of the run; with no
\* such process the query fails (NoProfile) or answers with a profile that no
\* process record determines.
latest_executor_profile_for_run(r) ==
    LET i == find_latest_by_execution_run_and_run_reason(r, "codingagent")
    IN IF i # 0 THEN {[executor |-> procs[i].executor, variant |-> procs[i].variant]}
       ELSE {NoProfile} \cup [executor : {runs[r].executor}, variant : Variants]

\* (variant: the variant of the request replaces the recorded one even when absent)
executor_profile_id_Request(initial, variant) ==
    [executor |-> initial.executor, variant |-> variant]

\* ExecutorProfileId { executor: initial.executor,
\*                     variant: payload.variant.or(initial.variant) }
executor_profile_id(initial, variant) ==
    [executor |-> initial.executor,
     variant  |-> IF variant # NoVariant THEN variant ELSE initial.variant]

\* (variant: a follow-up always continues the latest session id it is given)
action_type_Continue(latest_session_id, prompt, profile) ==
    [type |-> "follow_up", session_id |-> latest_session_id, prompt |-> prompt,
     profile |-> profile]

\* if let Some(session_id) = latest_session_id { CodingAgentFollowUpRequest }
\* else { CodingAgentInitialRequest }
action_type(latest_session_id, prompt, profile) ==
    IF latest_session_id # NoSession
    THEN [type |-> "follow_up", session_id |-> latest_session_id, prompt |-> prompt,
          profile |-> profile]
    ELSE [type |-> "initial", session_id |-> NoSession, prompt |-> prompt,
          profile |-> profile]

NoAction == [type |-> "none", session_id |-> NoSession, prompt |-> "none",
             profile |-> NoProfile]
NoRequest == [prompt |-> "none", variant |-> NoVariant]

RunAnswer(op, r, ok, process, req, action) ==
    [op |-> op, run |-> r, ok |-> ok, process |-> process, req |-> req, action |-> action]

\* create_execution_run: the run row is inserted, then start_run is asked to
\* start it; a failure to start is logged and the response carries no process.
create_execution_run(r, startOk, reason, profile) ==
    /\ ~runs[r].exists
    /\ startOk => Len(procs) < MaxProcs
    /\ runs' = [runs EXCEPT ![r] = [exists |-> TRUE, executor |-> profile.executor]]
    /\ IF startOk
       THEN /\ procs' = Append(procs, NewProcess(r, reason, profile))
            /\ runRes' = RunAnswer("create", r, TRUE, Len(procs) + 1, NoRequest, NoAction)
       ELSE /\ procs' = procs
            /\ runRes' = RunAnswer("create", r, TRUE, 0, NoRequest, NoAction)

\* follow_up: the latest session id and the latest profile are read, the action
\* is built, and start_execution_for_run is asked to start it with run reason
\* CodingAgent; the error of a query or of the start is the handler's error.
follow_up(r, req, startOk) ==
    /\ runs[r].exists
    /\ startOk => Len(procs) < MaxProcs
    /\ \E initial \in latest_executor_profile_for_run(r) :
          IF initial = NoProfile THEN
              /\ procs' = procs
              /\ runRes' = RunAnswer("follow_up", r, FALSE, 0, req, NoAction)
          ELSE
              LET profile == executor_profile_id(initial, req.variant)
                  action  == action_type(find_latest_session_id_by_execution_run(r),
                                         req.prompt, profile)
              IN IF startOk
                 THEN /\ procs' = Append(procs, NewProcess(r, "codingagent", profile))
                      /\ runRes' = RunAnswer("follow_up", r, TRUE, Len(procs) + 1, req, action)
                 ELSE /\ procs' = procs
                      /\ runRes' = RunAnswer("follow_up", r, FALSE, 0, req, action)
    /\ UNCHANGED runs

\* stop_execution_run: the latest coding-agent process of the run, if any, is
\* handed to stop_execution with status Killed.
stop_execution_run(r) ==
    /\ runs[r].exists
    /\ LET i == find_latest_by_execution_run_and_run_reason(r, "codingagent")
       IN /\ procs' = IF i # 0 THEN stop_execution(i, "killed") ELSE procs
          /\ runRes' = RunAnswer("stop", r, TRUE, i, NoRequest, NoAction)
    /\ UNCHANGED runs

\* The container service's exit monitor: a running process ends.
ProcessExit(i, status) ==
    /\ procs[i].status = "running"
    /\ procs' = [procs EXCEPT ![i].status = status]
    /\ UNCHANGED <<runs, runRes>>

\* The executor of a running coding-agent process reports the session it has
\* opened, and the container service records its id.
SessionOpened(i) ==
    /\ procs[i].status = "running" /\ procs[i].run_reason = "codingagent"
    /\ procs[i].session = NoSession
    /\ procs' = [procs EXCEPT ![i].session = i]
    /\ UNCHANGED <<runs, runRes>>

CreateExecutionRun ==
    /\ \E r \in RunIds, startOk \in BOOLEAN, reason \in RunReason, profile \in Profiles :
          create_execution_run(r, startOk, reason, profile)
    /\ UNCHANGED notRun

FollowUp ==
    /\ \E r \in RunIds, startOk \in BOOLEAN, req \in [prompt : Prompts, variant : Variants] :
          follow_up(r, req, startOk)
    /\ UNCHANGED notRun

SessionOpens ==
    /\ \E i \in 1..Len(procs) : SessionOpened(i)
    /\ UNCHANGED notRun

StopExecutionRun ==
    /\ \E r \in RunIds : stop_execution_run(r)
    /\ UNCHANGED notRun

ProcessExits ==
    /\ \E i \in 1..Len(procs), status \in {"completed", "failed"} : ProcessExit(i, status)
    /\ UNCHANGED notRun

RunInit ==
    /\ runs = [r \in RunIds |-> NoRow]
    /\ procs = <<>>
    /\ runRes = NoRes

RunIdle == RunInit

RunNext ==
    CreateExecutionRun \/ FollowUp \/ StopExecutionRun \/ ProcessExits \/ SessionOpens

(***************************************************************************)
(*                     THE execution_runs TABLE                            *)
(***************************************************************************)

\* Run ids (Uuid::new_v4().to_string()); two of them agree on their first
\* eight characters.
RunUuids == {"a1b2c3d4-0001", "a1b2c3d4-0002", "e5f6a7b8-0001"}

\* CreateExecutionRunRequest.base_branch, "absent" when omitted
BaseBranchField == {"absent", "dev"}

\* Worktree paths handed to update_container_ref
ContainerRefs == {"/worktrees/w1", "/worktrees/w2"}

\* container_ref IS NULL
NoContainerRef == "null"

NoRunRow == [exists |-> FALSE, branch |-> "", target_branch |-> "",
             container_ref |-> NoContainerRef, worktree_deleted |-> FALSE]

\* payload.base_branch.unwrap_or_else(|| "main".to_string())
base_branch(field) == IF field = "absent" THEN "main" ELSE field

\* (variant: the whole run id in the branch name)
branch_name_Whole(run_id) == "run/" \o run_id

\* format!("run/{}", &run_id.to_string()[..8])
branch_name(run_id) == "run/" \o SubSeq(run_id, 1, 8)

\* ExecutionRun::create: the INSERT, container_ref NULL and worktree_deleted
\* false.
create(branch, target) ==
    [exists |-> TRUE, branch |-> branch, target_branch |-> target,
     container_ref |-> NoContainerRef, worktree_deleted |-> FALSE]

\* create_execution_run, the run record: a fresh id, the branch derived from
\* it, the base branch of the payload.
RunCreateFor(run_id) ==
    /\ \E field \in BaseBranchField :
          /\ ~execution_runs[run_id].exists
          /\ execution_runs' = [execution_runs EXCEPT ![run_id] =
                                   create(branch_name(run_id), base_branch(field))]
          /\ created' = [run_id |-> run_id, base_branch |-> field]
    /\ UNCHANGED resolved
    /\ UNCHANGED notRows

RunCreate == \E run_id \in RunUuids : RunCreateFor(run_id)

\* (variant: a new container reference clears the worktree_deleted flag)
update_container_ref_Reset(row, container_ref) ==
    [row EXCEPT !.container_ref = container_ref, !.worktree_deleted = FALSE]

\* ExecutionRun::update_container_ref:
\* UPDATE execution_runs SET container_ref = $1, updated_at = $2 WHERE id = $3
update_container_ref(row, container_ref) == [row EXCEPT !.container_ref = container_ref]

UpdateContainerRefFor(run_id) ==
    /\ \E container_ref \in ContainerRefs :
          /\ execution_runs[run_id].exists
          /\ execution_runs' = [execution_runs EXCEPT ![run_id] =
                                   update_container_ref(@, container_ref)]
    /\ UNCHANGED <<resolved, created>>
    /\ UNCHANGED notRows

UpdateContainerRef == \E run_id \in RunUuids : UpdateContainerRefFor(run_id)

\* ExecutionRun::mark_worktree_deleted:
\* UPDATE execution_runs SET worktree_deleted = TRUE, ... WHERE id = ?
mark_worktree_deleted(row) == [row EXCEPT !.worktree_deleted = TRUE]

MarkWorktreeDeletedFor(run_id) ==
    /\ execution_runs[run_id].exists
    /\ ~execution_runs[run_id].worktree_deleted
    /\ execution_runs' = [execution_runs EXCEPT ![run_id] = mark_worktree_deleted(@)]
    /\ UNCHANGED <<resolved, created>>
    /\ UNCHANGED notRows

MarkWorktreeDeleted == \E run_id \in RunUuids : MarkWorktreeDeletedFor(run_id)

\* The rows a container reference selects: WHERE er.container_ref = ?
RowsWithRef(container_ref) ==
    {r \in RunUuids : execution_runs[r].exists
                        /\ execution_runs[r].container_ref = container_ref}

NoResolved == [container_ref |-> NoContainerRef, answer |-> "none"]

NoCreated == [run_id |-> "none", base_branch |-> "absent"]

\* ExecutionRun::resolve_container_ref: fetch_optional takes a row of the
\* selection, RowNotFound when there is none.
ResolveContainerRef ==
    /\ \E container_ref \in ContainerRefs :
          \E answer \in IF RowsWithRef(container_ref) = {} THEN {"RowNotFound"}
                        ELSE RowsWithRef(container_ref) :
             resolved' = [container_ref |-> container_ref, answer |-> answer]
    /\ UNCHANGED <<execution_runs, created>>
    /\ UNCHANGED notRows

RowsInit ==
    /\ execution_runs = [r \in RunUuids |-> NoRunRow]
    /\ resolved = NoResolved
    /\ created = NoCreated

RowsIdle == RowsInit

RowsNext == RunCreate \/ UpdateContainerRef \/ MarkWorktreeDeleted \/ ResolveContainerRef

(***************************************************************************)
(*                       THE STORE AND delete_task                         *)
(***************************************************************************)

TaskIds == {1, 2, 3}
AttemptIds == {1, 2, 3}
\* "no attempt": a null parent_task_attempt
NoAttempt == 0 - 1
DelCalls == {"d1", "d2"}

\* TaskStatus (spec 3)
TaskStatus == {"todo", "inprogress", "inreview", "done", "cancelled", "archived", "agent"}

NoTask == [exists |-> FALSE, status |-> "todo", parent |-> NoAttempt]
NoAttemptRow == [exists |-> FALSE, task |-> 0, container_ref |-> FALSE,
                 worktree_deleted |-> FALSE]

\* The rows a statement sees and writes: those of its transaction when it runs
\* in one, the committed ones otherwise.
Committed == [tasks |-> tasks, attempts |-> attempts, aproc |-> aproc]

\* TaskAttempt::fetch_all(pool, Some(task_id))
AttemptsOf(db, t) == {a \in AttemptIds : db.attempts[a].exists /\ db.attempts[a].task = t}

\* ContainerService::has_running_processes(task_id)
has_running_processes(t) == \E a \in AttemptsOf(Committed, t) : aproc[a] = "running"

\* Task::nullify_children_by_attempt_id: UPDATE tasks SET parent_task_attempt =
\* NULL WHERE parent_task_attempt = ?
nullify_children_by_attempt_id(db, a) ==
    [db EXCEPT !.tasks = [t \in TaskIds |->
        IF db.tasks[t].exists /\ db.tasks[t].parent = a
        THEN [db.tasks[t] EXCEPT !.parent = NoAttempt] ELSE db.tasks[t]]]

\* The rows the UPDATE affects.
ChildrenOf(db, a) == {t \in TaskIds : db.tasks[t].exists /\ db.tasks[t].parent = a}

\* The rows a child-less delete of task t removes: the task, and by FK CASCADE
\* its attempts and their processes.
TaskDeleted(db, t) ==
    [tasks    |-> [db.tasks EXCEPT ![t] = NoTask],
     attempts |-> [a \in AttemptIds |->
                     IF a \in AttemptsOf(db, t) THEN NoAttemptRow ELSE db.attempts[a]],
     aproc    |-> [a \in AttemptIds |->
                     IF a \in AttemptsOf(db, t) THEN "none" ELSE db.aproc[a]]]

\* The foreign key of tasks.parent_task_attempt refuses the delete while a task
\* still references an attempt of t.
FkRefusesDelete(db, t) ==
    \E c \in TaskIds : db.tasks[c].exists /\ db.tasks[c].parent \in AttemptsOf(db, t)

NoCall == [pc |-> "idle", task |-> 0, attempts |-> {}, todo |-> {}, cleanup |-> {},
           began |-> FALSE, total_children_affected |-> 0, result |-> "none"]

\* The rows the call's statements run against, inside its transaction.
TxView(d) == IF dbWriter = d THEN txn ELSE Committed

\* A statement of a transaction needs the write lock, or takes it when free.
CanWriteIn(d) == dbWriter \in {"none", d}

Returned(d, result) == [del[d] EXCEPT !.pc = "done", !.result = result]

\* (variant: the running-process check is skipped)
DelCheck_Unchecked(d) ==
    /\ del[d].pc = "idle"
    /\ \E t \in TaskIds :
          /\ tasks[t].exists
          /\ del' = [del EXCEPT ![d] = [NoCall EXCEPT !.pc = "fetch", !.task = t]]
    /\ UNCHANGED <<tasks, attempts, aproc, worktrees, dbWriter, txn, forge_agents>>
    /\ UNCHANGED notStore

\* delete_task is called on a task the middleware has loaded; "Validate no
\* running execution processes" (tasks.rs:649-656).
DelCheck(d) ==
    /\ del[d].pc = "idle"
    /\ \E t \in TaskIds :
          /\ tasks[t].exists
          /\ del' = [del EXCEPT ![d] =
                        IF has_running_processes(t)
                        THEN [NoCall EXCEPT !.pc = "done", !.task = t, !.result = "conflict"]
                        ELSE [NoCall EXCEPT !.pc = "fetch", !.task = t]]
    /\ UNCHANGED <<tasks, attempts, aproc, worktrees, dbWriter, txn, forge_agents>>
    /\ UNCHANGED notStore

\* "Gather task attempts data needed for background cleanup" (tasks.rs:658-684)
DelFetch(d) ==
    /\ del[d].pc = "fetch"
    /\ LET as == AttemptsOf(Committed, del[d].task)
       IN del' = [del EXCEPT ![d] = [@ EXCEPT !.pc = "begin", !.attempts = as, !.todo = as,
                     !.cleanup = {a \in as : attempts[a].container_ref}]]
    /\ UNCHANGED <<tasks, attempts, aproc, worktrees, dbWriter, txn, forge_agents>>
    /\ UNCHANGED notStore

\* let mut tx = deployment.db().pool.begin().await? (tasks.rs:687)
DelBegin(d) ==
    /\ del[d].pc = "begin"
    /\ del' = [del EXCEPT ![d] = [@ EXCEPT !.pc = "nullify", !.began = TRUE]]
    /\ UNCHANGED <<tasks, attempts, aproc, worktrees, dbWriter, txn, forge_agents>>
    /\ UNCHANGED notStore

\* (variant: the children are nullified on the pool, outside the transaction)
DelNullify_OnPool(d) ==
    /\ del[d].pc = "nullify" /\ del[d].todo # {}
    /\ dbWriter = "none"
    /\ LET a == CHOOSE x \in del[d].todo : \A y \in del[d].todo : x <= y
       IN /\ tasks' = nullify_children_by_attempt_id(Committed, a).tasks
          /\ del' = [del EXCEPT ![d] = [@ EXCEPT !.todo = @ \ {a},
                        !.total_children_affected = @ + Cardinality(ChildrenOf(Committed, a))]]
    /\ txn' = [txn EXCEPT !.tasks = tasks']
    /\ UNCHANGED <<attempts, aproc, worktrees, dbWriter, forge_agents>>
    /\ UNCHANGED notStore

\* One round of the loop over the attempts: Task::nullify_children_by_attempt_id
\* (&mut *tx, attempt.id) (tasks.rs:692-695)
DelNullify(d) ==
    /\ del[d].pc = "nullify" /\ del[d].todo # {}
    /\ CanWriteIn(d)
    /\ LET a == CHOOSE x \in del[d].todo : \A y \in del[d].todo : x <= y
       IN /\ txn' = nullify_children_by_attempt_id(TxView(d), a)
          /\ dbWriter' = d
          /\ del' = [del EXCEPT ![d] = [@ EXCEPT !.todo = @ \ {a},
                        !.total_children_affected = @ + Cardinality(ChildrenOf(TxView(d), a))]]
    /\ UNCHANGED <<tasks, attempts, aproc, worktrees, forge_agents>>
    /\ UNCHANGED notStore

\* (variant: the number of affected rows is not looked at)
DelDelete_IgnoreRows(d) ==
    /\ del[d].pc = "nullify" /\ del[d].todo = {}
    /\ CanWriteIn(d)
    /\ LET db == TxView(d)
           t  == del[d].task
       IN IF db.tasks[t].exists /\ FkRefusesDelete(db, t) THEN
              /\ del' = [del EXCEPT ![d] = Returned(d, "database_error")]
              /\ dbWriter' = "none"
              /\ txn' = Committed
          ELSE
              /\ del' = [del EXCEPT ![d] = [@ EXCEPT !.pc = "commit"]]
              /\ dbWriter' = d
              /\ txn' = TaskDeleted(db, t)
    /\ UNCHANGED <<tasks, attempts, aproc, worktrees, forge_agents>>
    /\ UNCHANGED notStore

\* Task::delete(&mut *tx, task.id); zero rows affected is RowNotFound, and the
\* dropped transaction rolls back (tasks.rs:697-702)
DelDelete(d) ==
    /\ del[d].pc = "nullify" /\ del[d].todo = {}
    /\ CanWriteIn(d)
    /\ LET db == TxView(d)
           t  == del[d].task
       IN IF ~db.tasks[t].exists THEN
              /\ del' = [del EXCEPT ![d] = Returned(d, "not_found")]
              /\ dbWriter' = "none"
              /\ txn' = Committed
          ELSE IF FkRefusesDelete(db, t) THEN
              /\ del' = [del EXCEPT ![d] = Returned(d, "database_error")]
              /\ dbWriter' = "none"
              /\ txn' = Committed
          ELSE
              /\ del' = [del EXCEPT ![d] = [@ EXCEPT !.pc = "commit"]]
              /\ dbWriter' = d
              /\ txn' = TaskDeleted(db, t)
    /\ UNCHANGED <<tasks, attempts, aproc, worktrees, forge_agents>>
    /\ UNCHANGED notStore

\* (variant: the cleanup is spawned whether or not the commit succeeded)
DelCommit_ThenCleanup(d) ==
    /\ del[d].pc = "commit"
    /\ dbWriter = d
    /\ \E ok \in BOOLEAN :
          IF ok
          THEN /\ tasks' = txn.tasks
               /\ attempts' = txn.attempts
               /\ aproc' = txn.aproc
               /\ del' = [del EXCEPT ![d] = [@ EXCEPT !.pc = "cleanup", !.result = "accepted"]]
          ELSE /\ UNCHANGED <<tasks, attempts, aproc>>
               /\ del' = [del EXCEPT ![d] = [@ EXCEPT !.pc = "cleanup",
                                                      !.result = "database_error"]]
    /\ dbWriter' = "none"
    /\ txn' = [tasks |-> tasks', attempts |-> attempts', aproc |-> aproc']
    /\ UNCHANGED <<worktrees, forge_agents>>
    /\ UNCHANGED notStore

\* tx.commit().await? (tasks.rs:705): all the changes of the transaction become
\* visible at once, or (on failure) none does.
DelCommit(d) ==
    /\ del[d].pc = "commit"
    /\ dbWriter = d
    /\ \E ok \in BOOLEAN :
          IF ok
          THEN /\ tasks' = txn.tasks
               /\ attempts' = txn.attempts
               /\ aproc' = txn.aproc
               /\ del' = [del EXCEPT ![d] = [@ EXCEPT !.pc = "cleanup", !.result = "accepted"]]
          ELSE /\ UNCHANGED <<tasks, attempts, aproc>>
               /\ del' = [del EXCEPT ![d] = Returned(d, "database_error")]
    /\ dbWriter' = "none"
    /\ txn' = [tasks |-> tasks', attempts |-> attempts', aproc |-> aproc']
    /\ UNCHANGED <<worktrees, forge_agents>>
    /\ UNCHANGED notStore

\* The spawned background task: cleanup_worktrees_direct(&cleanup_data); a
\* failure is logged (tasks.rs:726-747).
DelCleanup(d) ==
    /\ del[d].pc = "cleanup"
    /\ \E removed \in SUBSET del[d].cleanup :
          worktrees' = worktrees \ removed
    /\ del' = [del EXCEPT ![d] = [@ EXCEPT !.pc = "done"]]
    /\ UNCHANGED <<tasks, attempts, aproc, dbWriter, txn, forge_agents>>
    /\ UNCHANGED notStore

\* The client reads the answer; the slot serves the next call.
DelReturn(d) ==
    /\ del[d].pc = "done"
    /\ del' = [del EXCEPT ![d] = NoCall]
    /\ UNCHANGED <<tasks, attempts, aproc, worktrees, dbWriter, txn, forge_agents>>
    /\ UNCHANGED notStore

\* The container service starts a process for an attempt (a follow-up, a
\* script), and its exit monitor records the end of one.
ProcessStart(a) ==
    /\ dbWriter = "none"
    /\ attempts[a].exists /\ aproc[a] # "running"
    /\ aproc' = [aproc EXCEPT ![a] = "running"]
    /\ txn' = [txn EXCEPT !.aproc = aproc']
    /\ UNCHANGED <<tasks, attempts, worktrees, dbWriter, del, forge_agents>>
    /\ UNCHANGED notStore

ProcessEnd(a) ==
    /\ dbWriter = "none"
    /\ attempts[a].exists /\ aproc[a] = "running"
    /\ aproc' = [aproc EXCEPT ![a] = "completed"]
    /\ txn' = [txn EXCEPT !.aproc = aproc']
    /\ UNCHANGED <<tasks, attempts, worktrees, dbWriter, del, forge_agents>>
    /\ UNCHANGED notStore

DeleteTask ==
    \E d \in DelCalls :
        \/ DelCheck(d) \/ DelFetch(d) \/ DelBegin(d) \/ DelNullify(d) \/ DelDelete(d)
        \/ DelCommit(d) \/ DelCleanup(d) \/ DelReturn(d)

ProcessRuns == \E a \in AttemptIds : ProcessStart(a) \/ ProcessEnd(a)

\* A store with tasks, attempts of tasks 1 and 2, and references from tasks to
\* attempts of other tasks.
StoreInit ==
    /\ tasks \in [TaskIds -> [exists : {TRUE}, status : {"todo"},
                              parent : {NoAttempt, 1, 2}]]
    /\ attempts \in [AttemptIds -> [exists : {TRUE}, task : {1, 2},
                                    container_ref : BOOLEAN, worktree_deleted : {FALSE}]
                                   \cup {NoAttemptRow}]
    /\ \A a \in AttemptIds : attempts[a].exists <=> a \in {1, 2}
    /\ attempts[1].task = 1
    /\ attempts[2].container_ref
    /\ tasks[1].parent = NoAttempt
    /\ \A t \in TaskIds :
          tasks[t].parent # NoAttempt => attempts[tasks[t].parent].task # t
    /\ aproc \in [AttemptIds -> {"none", "running", "completed"}]
    /\ \A a \in AttemptIds : aproc[a] = "none" <=> ~attempts[a].exists
    /\ worktrees = {a \in AttemptIds : attempts[a].exists /\ attempts[a].container_ref}
    /\ forge_agents = {}
    /\ dbWriter = "none"
    /\ txn = Committed
    /\ del = [d \in DelCalls |-> NoCall]

\* The store of a deployment whose task handlers are not exercised.
StoreRest ==
    /\ tasks = [t \in TaskIds |-> NoTask]
    /\ attempts = [a \in AttemptIds |-> NoAttemptRow]
    /\ aproc = [a \in AttemptIds |-> "none"]
    /\ worktrees = {}
    /\ dbWriter = "none"
    /\ txn = Committed
    /\ del = [d \in DelCalls |-> NoCall]

StoreIdle == StoreRest /\ forge_agents = {}

StoreNext == DeleteTask \/ ProcessRuns

(***************************************************************************)
(*                 create_task_and_start AND get_tasks                     *)
(***************************************************************************)

\* CreateAndStartTaskRequest.use_worktree: Option<bool>
UseWorktreeField == {"absent", "true", "false"}

\* payload.use_worktree.unwrap_or(true)
use_worktree(field) == field # "false"

\* (variant: every task is created as todo)
initial_status_Todo(uw) == "todo"

\* "Set initial status based on use_worktree"
initial_status(uw) == IF uw THEN "todo" ELSE "agent"

NoCas == [pc |-> "none", field |-> "absent", attempt |-> NoAttempt, result |-> "none",
          has_in_progress_attempt |-> FALSE]

NoListing == [called |-> FALSE, tasks |-> {}]

Failed(t) == [cas[t] EXCEPT !.pc = "done", !.result = "error"]

\* The pool's statements wait for the write lock and commit on their own.
Autocommit ==
    /\ dbWriter = "none"
    /\ txn' = [tasks |-> tasks', attempts |-> attempts', aproc |-> aproc']
    /\ UNCHANGED <<dbWriter, del>>

\* Task::create_with_status(pool, &payload.task, task_id, initial_status), for
\* a fresh task id
CasCreateTask(t) ==
    /\ cas[t].pc = "none" /\ ~tasks[t].exists
    /\ \E field \in UseWorktreeField, ok \in BOOLEAN :
          IF ok
          THEN /\ tasks' = [tasks EXCEPT ![t] =
                              [exists |-> TRUE,
                               status |-> initial_status(use_worktree(field)),
                               parent |-> NoAttempt]]
               /\ cas' = [cas EXCEPT ![t] = [NoCas EXCEPT !.pc = "created", !.field = field]]
          ELSE /\ UNCHANGED tasks
               /\ cas' = [cas EXCEPT ![t] = [NoCas EXCEPT !.pc = "done", !.field = field,
                                                          !.result = "error"]]
    /\ UNCHANGED <<attempts, aproc, worktrees, forge_agents, listing>>
    /\ Autocommit
    /\ UNCHANGED notBoard

\* TaskImage::associate_many, then "If non-worktree task (e.g., agent chat),
\* register in forge_agents to hide from kanban"
CasRegisterAgent(t) ==
    /\ cas[t].pc = "created"
    /\ \E imagesOk \in BOOLEAN, insertOk \in BOOLEAN :
          IF ~imagesOk THEN
              /\ cas' = [cas EXCEPT ![t] = Failed(t)]
              /\ UNCHANGED forge_agents
          ELSE IF ~use_worktree(cas[t].field) THEN
              IF insertOk
              THEN /\ forge_agents' = forge_agents \cup {t}
                   /\ cas' = [cas EXCEPT ![t] = [@ EXCEPT !.pc = "registered"]]
              ELSE /\ cas' = [cas EXCEPT ![t] = Failed(t)]
                   /\ UNCHANGED forge_agents
          ELSE
              /\ cas' = [cas EXCEPT ![t] = [@ EXCEPT !.pc = "registered"]]
              /\ UNCHANGED forge_agents
    /\ UNCHANGED <<tasks, attempts, aproc, worktrees, listing>>
    /\ Autocommit
    /\ UNCHANGED notBoard

\* TaskAttempt::create under a fresh attempt id, then "Insert worktree config
\* if explicitly specified"
CasCreateAttempt(t) ==
    /\ cas[t].pc = "registered"
    /\ \E a \in AttemptIds, createOk \in BOOLEAN, configOk \in BOOLEAN :
          /\ ~attempts[a].exists
          /\ \A b \in AttemptIds : ~attempts[b].exists => a <= b
          /\ IF ~createOk THEN
                 /\ cas' = [cas EXCEPT ![t] = Failed(t)]
                 /\ UNCHANGED attempts
             ELSE
                 /\ attempts' = [attempts EXCEPT ![a] =
                       [exists |-> TRUE, task |-> t, container_ref |-> FALSE,
                        worktree_deleted |-> FALSE]]
                 /\ cas' = [cas EXCEPT ![t] =
                       IF cas[t].field # "absent" /\ ~configOk
                       THEN [Failed(t) EXCEPT !.attempt = a]
                       ELSE [@ EXCEPT !.pc = "attempted", !.attempt = a]]
    /\ UNCHANGED <<tasks, aproc, worktrees, forge_agents, listing>>
    /\ Autocommit
    /\ UNCHANGED notBoard

\* (variant: a failure to start is the call's error)
CasStart_Fatal(t) ==
    /\ cas[t].pc = "attempted"
    /\ \E is_attempt_running \in BOOLEAN :
          LET a == cas[t].attempt
          IN /\ IF is_attempt_running
                THEN /\ aproc' = [aproc EXCEPT ![a] = "running"]
                     /\ attempts' = [attempts EXCEPT ![a].container_ref =
                                        use_worktree(cas[t].field)]
                     /\ worktrees' = IF use_worktree(cas[t].field)
                                     THEN worktrees \cup {a} ELSE worktrees
                     /\ cas' = [cas EXCEPT ![t] = [@ EXCEPT !.pc = "done", !.result = "ok",
                                  !.has_in_progress_attempt = TRUE]]
                ELSE /\ UNCHANGED <<aproc, attempts, worktrees>>
                     /\ cas' = [cas EXCEPT ![t] = Failed(t)]
    /\ UNCHANGED <<tasks, forge_agents, listing>>
    /\ Autocommit
    /\ UNCHANGED notBoard

\* container().start_attempt(..).is_ok(), then the task is read again and
\* returned with has_in_progress_attempt: is_attempt_running
CasStart(t) ==
    /\ cas[t].pc = "attempted"
    /\ \E is_attempt_running \in BOOLEAN :
          LET a == cas[t].attempt
          IN /\ IF is_attempt_running
                THEN /\ aproc' = [aproc EXCEPT ![a] = "running"]
                     /\ attempts' = [attempts EXCEPT ![a].container_ref =
                                        use_worktree(cas[t].field)]
                     /\ worktrees' = IF use_worktree(cas[t].field)
                                     THEN worktrees \cup {a} ELSE worktrees
                ELSE UNCHANGED <<aproc, attempts, worktrees>>
             /\ cas' = [cas EXCEPT ![t] = [@ EXCEPT !.pc = "done", !.result = "ok",
                          !.has_in_progress_attempt = is_attempt_running]]
    /\ UNCHANGED <<tasks, forge_agents, listing>>
    /\ Autocommit
    /\ UNCHANGED notBoard

CreateTaskAndStart ==
    \E t \in TaskIds :
        CasCreateTask(t) \/ CasRegisterAgent(t) \/ CasCreateAttempt(t) \/ CasStart(t)

\* The rows of: SELECT .. FROM tasks t WHERE .. AND t.id NOT IN (SELECT task_id
\* FROM forge_agents)
get_kanban_tasks ==
    {[id |-> t, status |-> tasks[t].status] : t \in {x \in TaskIds : tasks[x].exists} \ forge_agents}

GetTasks ==
    /\ listing' = [called |-> TRUE, tasks |-> get_kanban_tasks]
    /\ UNCHANGED <<tasks, attempts, aproc, worktrees, forge_agents, cas, dbWriter, txn, del>>
    /\ UNCHANGED notBoard

BoardIdle ==
    /\ cas = [t \in TaskIds |-> NoCas]
    /\ listing = NoListing

BoardInit == StoreIdle /\ BoardIdle

BoardNext == CreateTaskAndStart \/ GetTasks

(***************************************************************************)
(*                 update_task AND handle_task_archive                     *)
(***************************************************************************)

UpdCalls == {"u1"}

\* UpdateTask.status, when given
UpdateStatuses == {"todo", "archived"}
\* An UpdateTask payload; "absent" and NoAttempt stand for omitted fields. The
\* calls modelled leave the parent attempt out.
UpdatePayloads == [status : UpdateStatuses \cup {"absent"},
                   parent_task_attempt : {NoAttempt}]

NoUpdate == [pc |-> "idle", task |-> 0, existing_task |-> NoTask, result |-> "none"]

NoArchive == [pc |-> "idle", attempts |-> {}, cleanup |-> {}, todo |-> {}, failed |-> FALSE]

\* load_task_middleware: the task row is read and handed to update_task as
\* existing_task.
UpdLoad(u) ==
    /\ upd[u].pc = "idle"
    /\ \E t \in TaskIds :
          /\ tasks[t].exists
          /\ upd' = [upd EXCEPT ![u] = [NoUpdate EXCEPT !.pc = "loaded", !.task = t,
                                                        !.existing_task = tasks[t]]]
    /\ UNCHANGED <<tasks, attempts, aproc, worktrees, dbWriter, txn, del, forge_agents, arch>>
    /\ UNCHANGED notArchive

\* let status = payload.status.unwrap_or(existing_task.status)
update_status(payload, existing_task) ==
    IF payload.status # "absent" THEN payload.status ELSE existing_task.status

\* payload.parent_task_attempt.or(existing_task.parent_task_attempt)
update_parent(payload, existing_task) ==
    IF payload.parent_task_attempt # NoAttempt THEN payload.parent_task_attempt
    ELSE existing_task.parent

\* status == TaskStatus::Archived && existing_task.status != TaskStatus::Archived
is_archive_transition(status, existing_task) ==
    status = "archived" /\ existing_task.status # "archived"

\* update_task: Task::update, the image (re)association, and on the first
\* archiving the spawn of handle_task_archive. The cleanup task of a task is
\* spawned while no earlier one of the same task is still at work.
UpdWrite(u) ==
    /\ upd[u].pc = "loaded"
    /\ dbWriter = "none"
    /\ \E payload \in UpdatePayloads, updateOk \in BOOLEAN, imagesOk \in BOOLEAN :
          LET t      == upd[u].task
              status == update_status(payload, upd[u].existing_task)
              parent == update_parent(payload, upd[u].existing_task)
              spawns == updateOk /\ imagesOk
                          /\ is_archive_transition(status, upd[u].existing_task)
          IN /\ spawns => arch[t].pc = "idle"
             /\ tasks' = IF updateOk
                         THEN [tasks EXCEPT ![t] = [exists |-> TRUE, status |-> status,
                                                    parent |-> parent]]
                         ELSE tasks
             /\ arch' = IF spawns THEN [arch EXCEPT ![t] = [NoArchive EXCEPT !.pc = "spawned"]]
                        ELSE arch
             /\ upd' = [upd EXCEPT ![u] = [@ EXCEPT !.pc = "done",
                          !.result = IF updateOk /\ imagesOk THEN "ok" ELSE "error"]]
    /\ txn' = [txn EXCEPT !.tasks = tasks']
    /\ UNCHANGED <<attempts, aproc, worktrees, dbWriter, del, forge_agents>>
    /\ UNCHANGED notArchive

\* The client reads the answer; the slot serves the next call.
UpdReturn(u) ==
    /\ upd[u].pc = "done"
    /\ upd' = [upd EXCEPT ![u] = NoUpdate]
    /\ UNCHANGED <<tasks, attempts, aproc, worktrees, dbWriter, txn, del, forge_agents, arch>>
    /\ UNCHANGED notArchive

\* handle_task_archive, the spawned task: "Fetch task", "Fetch all attempts",
\* "Build cleanup data from attempts"; it ends here when a read fails or when
\* there is nothing to clean up.
ArchFetch(t) ==
    /\ arch[t].pc = "spawned"
    /\ \E readOk \in BOOLEAN :
          LET as == AttemptsOf(Committed, t)
              cleanup == {a \in as : attempts[a].container_ref}
          IN arch' = [arch EXCEPT ![t] =
                 IF ~readOk \/ ~tasks[t].exists
                 THEN [NoArchive EXCEPT !.failed = TRUE]
                 ELSE IF cleanup = {} THEN NoArchive
                 ELSE [pc |-> "cleanup", attempts |-> as, cleanup |-> cleanup,
                       todo |-> {}, failed |-> FALSE]]
    /\ UNCHANGED <<tasks, attempts, aproc, worktrees, dbWriter, txn, del, forge_agents, upd>>
    /\ UNCHANGED notArchive

\* (variant: the attempts whose worktree is gone are marked even when the
\* cleanup fails)
ArchCleanup_MarkRemoved(t) ==
    /\ arch[t].pc = "cleanup"
    /\ \E removed \in SUBSET arch[t].cleanup :
          /\ worktrees' = worktrees \ removed
          /\ attempts' = [a \in AttemptIds |->
                            IF a \in removed THEN [attempts[a] EXCEPT !.worktree_deleted = TRUE]
                            ELSE attempts[a]]
          /\ arch' = [arch EXCEPT ![t] =
                IF worktrees' \cap arch[t].cleanup = {}
                THEN [@ EXCEPT !.pc = "mark", !.todo = arch[t].attempts]
                ELSE [NoArchive EXCEPT !.failed = TRUE]]
    /\ txn' = [txn EXCEPT !.attempts = attempts']
    /\ UNCHANGED <<tasks, aproc, dbWriter, del, forge_agents, upd>>
    /\ UNCHANGED notArchive

\* cleanup_worktrees_direct(&cleanup_data): worktrees of the list are removed;
\* Ok when none of them is left, Err (logged, nothing marked) otherwise.
ArchCleanup(t) ==
    /\ arch[t].pc = "cleanup"
    /\ \E removed \in SUBSET arch[t].cleanup :
          /\ worktrees' = worktrees \ removed
          /\ arch' = [arch EXCEPT ![t] =
                IF worktrees' \cap arch[t].cleanup = {}
                THEN [@ EXCEPT !.pc = "mark", !.todo = arch[t].attempts]
                ELSE [NoArchive EXCEPT !.failed = TRUE]]
    /\ UNCHANGED <<tasks, attempts, aproc, dbWriter, txn, del, forge_agents, upd>>
    /\ UNCHANGED notArchive

\* (variant: only the first attempt of the list is marked)
ArchMark_FirstOnly(t) ==
    /\ arch[t].pc = "mark" /\ arch[t].todo # {}
    /\ dbWriter = "none"
    /\ LET a == CHOOSE x \in arch[t].todo : \A y \in arch[t].todo : x <= y
       IN /\ attempts' = IF attempts[a].exists
                         THEN [attempts EXCEPT ![a].worktree_deleted = TRUE]
                         ELSE attempts
          /\ arch' = [arch EXCEPT ![t] = NoArchive]
    /\ txn' = [txn EXCEPT !.attempts = attempts']
    /\ UNCHANGED <<tasks, aproc, worktrees, dbWriter, del, forge_agents, upd>>
    /\ UNCHANGED notArchive

\* "Mark worktrees as deleted in database": one UPDATE per attempt of the
\* list, a failed one logged; after the last the task ends.
ArchMark(t) ==
    /\ arch[t].pc = "mark" /\ arch[t].todo # {}
    /\ dbWriter = "none"
    /\ \E ok \in BOOLEAN :
          LET a == CHOOSE x \in arch[t].todo : \A y \in arch[t].todo : x <= y
              rest == arch[t].todo \ {a}
              failed == arch[t].failed \/ ~ok
          IN /\ attempts' = IF ok /\ attempts[a].exists
                            THEN [attempts EXCEPT ![a].worktree_deleted = TRUE]
                            ELSE attempts
             /\ arch' = [arch EXCEPT ![t] =
                   IF rest = {} THEN [NoArchive EXCEPT !.failed = failed]
                   ELSE [@ EXCEPT !.todo = rest, !.failed = failed]]
    /\ txn' = [txn EXCEPT !.attempts = attempts']
    /\ UNCHANGED <<tasks, aproc, worktrees, dbWriter, del, forge_agents, upd>>
    /\ UNCHANGED notArchive

UpdateTask == \E u \in UpdCalls : UpdLoad(u) \/ UpdWrite(u) \/ UpdReturn(u)

\* The steps of the cleanup task spawned for task t.
ArchiveTask(t) == ArchFetch(t) \/ ArchCleanup(t) \/ ArchMark(t)

ArchiveCleanup == \E t \in TaskIds : ArchiveTask(t)

ArchiveIdle ==
    /\ upd = [u \in UpdCalls |-> NoUpdate]
    /\ arch = [t \in TaskIds |-> NoArchive]

\* Tasks 1 and 2 with the attempts of tasks created and started before, their
\* worktrees on disk.
ArchiveInit ==
    /\ tasks \in [TaskIds -> [exists : {TRUE}, status : {"todo"}, parent : {NoAttempt}]
                             \cup {NoTask}]
    /\ \A t \in TaskIds : tasks[t].exists <=> t \in {1, 2}
    /\ attempts \in [AttemptIds -> [exists : {TRUE}, task : {1, 2},
                                    container_ref : BOOLEAN, worktree_deleted : {FALSE}]
                                   \cup {NoAttemptRow}]
    /\ \A a \in AttemptIds : attempts[a].exists <=> a \in {1, 2}
    /\ attempts[1].task = 1 /\ attempts[1].container_ref
    /\ aproc = [a \in AttemptIds |-> IF attempts[a].exists THEN "completed" ELSE "none"]
    /\ worktrees = {a \in AttemptIds : attempts[a].exists /\ attempts[a].container_ref}
    /\ forge_agents = {}
    /\ dbWriter = "none"
    /\ txn = Committed
    /\ del = [d \in DelCalls |-> NoCall]
    /\ ArchiveIdle

ArchiveNext == UpdateTask \/ ArchiveCleanup

(***************************************************************************)
(*                         KANBAN STREAM FILTER                            *)
(***************************************************************************)

\* Bound: operations in one patch of the upstream stream.
MaxOps == 2

\* The ids of the project's tasks that appear in the stream's traffic.
StreamIds == {1, 2}

\* TaskStatus values a streamed task carries ("todo" stands for the statuses
\* other than agent).
StreamStatus == {"todo", "agent"}

\* The value of an add/replace operation: a TaskWithAttemptStatus (wf), or a
\* value serde_json::from_value rejects.
TaskValue == [wf : {TRUE}, status : StreamStatus]
Malformed == [wf |-> FALSE, status |-> "todo"]
Values == TaskValue \cup {Malformed}

\* Snapshot objects: entries task id -> value for some of the task ids, as a
\* set of [id, value] with one entry per id.
SnapshotObjects ==
    UNION {{{[id |-> k, value |-> f[k]] : k \in ks} : f \in [ks -> Values]} :
               ks \in SUBSET StreamIds}

\* One operation of a JSON patch.
\*   path "task":  /tasks/<id>       path "tasks": /tasks      path "else": another
\*   obj: the entries of the value when it is the object of a snapshot
TaskOps ==
    [op : {"add", "replace"}, path : {"task"}, id : StreamIds, value : Values,
     isObj : {FALSE}, obj : {{}}]
RemoveOps ==
    [op : {"remove"}, path : {"task"}, id : StreamIds, value : {Malformed},
     isObj : {FALSE}, obj : {{}}]
SnapshotOps ==
    [op : {"replace"}, path : {"tasks"}, id : {0}, value : {Malformed},
     isObj : {TRUE}, obj : SnapshotObjects]
OtherOps ==
    [op : {"test"}, path : {"task"}, id : {1}, value : {Malformed},
     isObj : {FALSE}, obj : {{}}]
    \cup [op : {"replace", "add"}, path : {"tasks"}, id : {0}, value : {Malformed},
          isObj : {FALSE}, obj : {{}}]
    \cup [op : {"replace"}, path : {"else"}, id : {0}, value : {Malformed},
          isObj : {FALSE}, obj : {{}}]
HeadOps == TaskOps \cup RemoveOps \cup SnapshotOps \cup OtherOps

\* The operations that follow the first one of a patch.
TailOps ==
    [op : {"add"}, path : {"task"}, id : StreamIds, value : TaskValue,
     isObj : {FALSE}, obj : {{}}]
    \cup RemoveOps

RECURSIVE SeqsUpTo(_, _)
SeqsUpTo(S, n) ==
    IF n = 0 THEN {<<>>}
    ELSE LET shorter == SeqsUpTo(S, n - 1)
         IN shorter \cup {Append(q, x) : q \in shorter, x \in S}

Patches == {<<>>} \cup {<<h>> \o t : h \in HeadOps, t \in SeqsUpTo(TailOps, MaxOps - 1)}

\* LogMsg items of the upstream stream: a JSON patch, another LogMsg, an error.
Messages ==
    {[type |-> "patch", ops |-> q] : q \in Patches}
        \cup {[type |-> "other", ops |-> <<>>], [type |-> "err", ops |-> <<>>]}

NoMsg == [type |-> "none", ops |-> <<>>]
NoVerdict == [v |-> "none", hidden |-> {}, kept |-> {}]
Idle == [pc |-> "next", msg |-> NoMsg, id |-> 0, todo |-> {}, kept |-> {}]

\* ---- the hidden set's lock ----
\* (variant: the read does not wait for the writer)
CanRead_Unlocked == TRUE

\* agent_task_ids.read().await is granted (tasks.rs:381)
CanRead == cacheWriter = "none"

\* agent_task_ids.write().await / refresh_cache.write().await is granted
CanWrite == cacheWriter = "none"

\* ---- the refresh task (tasks.rs:211-244) ----
\* interval.tick() and the query for the project's agent task ids
RefreshQuery ==
    /\ filt.pc # "closed"
    /\ refresh.pc = "tick"
    /\ \E ok \in BOOLEAN :
          refresh' = IF ok THEN [pc |-> "queried", tasks |-> forge_agents]
                     ELSE refresh
    /\ UNCHANGED <<forge_agents, agent_task_ids, cacheWriter, committed, filt, verdict, tornRead>>
    /\ UNCHANGED notKanban

\* (variant: the write lock is taken before the query is sent)
RefreshLock_BeforeQuery ==
    /\ filt.pc # "closed"
    /\ refresh.pc \in {"tick", "queried"}
    /\ CanWrite
    /\ cacheWriter' = "refresh"
    /\ refresh' = IF refresh.pc = "queried" THEN [refresh EXCEPT !.pc = "locked"] ELSE refresh
    /\ UNCHANGED <<forge_agents, agent_task_ids, committed, filt, verdict, tornRead>>
    /\ UNCHANGED notKanban

\* let mut cache = refresh_cache.write().await
RefreshLock ==
    /\ filt.pc # "closed"
    /\ refresh.pc = "queried"
    /\ CanWrite
    /\ cacheWriter' = "refresh"
    /\ refresh' = [refresh EXCEPT !.pc = "locked"]
    /\ UNCHANGED <<forge_agents, agent_task_ids, committed, filt, verdict, tornRead>>
    /\ UNCHANGED notKanban

\* cache.clear()
RefreshClear ==
    /\ filt.pc # "closed"
    /\ refresh.pc = "locked"
    /\ agent_task_ids' = {}
    /\ refresh' = [refresh EXCEPT !.pc = "cleared"]
    /\ UNCHANGED <<forge_agents, cacheWriter, committed, filt, verdict, tornRead>>
    /\ UNCHANGED notKanban

\* cache.extend(tasks)
RefreshExtend ==
    /\ filt.pc # "closed"
    /\ refresh.pc = "cleared"
    /\ agent_task_ids' = agent_task_ids \cup refresh.tasks
    /\ refresh' = [refresh EXCEPT !.pc = "extended"]
    /\ UNCHANGED <<forge_agents, cacheWriter, committed, filt, verdict, tornRead>>
    /\ UNCHANGED notKanban

\* the write guard is dropped at the end of the Ok arm
RefreshUnlock ==
    /\ filt.pc # "closed"
    /\ refresh.pc = "extended"
    /\ cacheWriter' = "none"
    /\ committed' = agent_task_ids
    /\ refresh' = [pc |-> "tick", tasks |-> {}]
    /\ UNCHANGED <<forge_agents, agent_task_ids, filt, verdict, tornRead>>
    /\ UNCHANGED notKanban

\* ---- the store, as far as the stream reads it ----
\* The forge_agents insert of create_task_and_start (tasks.rs:481-492).
RegisterAgent ==
    /\ \E t \in StreamIds \ forge_agents : forge_agents' = forge_agents \cup {t}
    /\ UNCHANGED <<agent_task_ids, cacheWriter, committed, refresh, filt, verdict, tornRead>>
    /\ UNCHANGED notKanban

\* ---- the filter (tasks.rs:247-346) ----
\* (variant: only the hidden set decides)
DropTask_SetOnly(isAgent, status) == isAgent

\* is_agent_task(..).await || task_with_status.task.status == TaskStatus::Agent
DropTask(isAgent, status) == isAgent \/ status = "agent"

\* (variant: a remove of /tasks/<id> is checked like an add)
IsTaskUpsert_OrRemove(m) ==
    /\ m.type = "patch" /\ Len(m.ops) > 0
    /\ m.ops[1].path = "task"
    /\ \/ m.ops[1].op \in {"add", "replace"} /\ m.ops[1].value.wf
       \/ m.ops[1].op = "remove"

\* The first operation is an add or replace of /tasks/<id> whose value parses.
IsTaskUpsert(m) ==
    /\ m.type = "patch" /\ Len(m.ops) > 0
    /\ m.ops[1].path = "task" /\ m.ops[1].op \in {"add", "replace"}
    /\ m.ops[1].value.wf

\* The first operation is the initial snapshot: replace of /tasks by an object.
IsSnapshot(m) ==
    /\ m.type = "patch" /\ Len(m.ops) > 0
    /\ m.ops[1].path = "tasks" /\ m.ops[1].op = "replace"
    /\ m.ops[1].isObj

\* (variant: every entry counts as parsed)
Parsed_All(o) == {x.id : x \in o}

\* The entries of a snapshot that parse; the others are skipped by the loop.
Parsed(o) == {x.id : x \in {y \in o : y.value.wf}}

\* The value a snapshot object holds for task id k.
Entry(o, k) == (CHOOSE x \in o : x.id = k).value

Least(S) == CHOOSE k \in S : \A j \in S : k <= j

\* The filter's state once the verdict on the message in hand is given.
Given(m, v, kept, hidden) ==
    /\ filt' = [pc |-> "given", msg |-> m, id |-> 0, todo |-> {}, kept |-> {}]
    /\ verdict' = [v |-> v, hidden |-> hidden, kept |-> kept]

\* The next item of the upstream stream arrives.
FilterNext ==
    /\ filt.pc = "next"
    /\ \E m \in Messages :
          IF IsTaskUpsert(m) THEN
              /\ filt' = [pc |-> "read", msg |-> m, id |-> m.ops[1].id,
                          todo |-> {}, kept |-> {}]
              /\ verdict' = NoVerdict
          ELSE IF IsSnapshot(m) /\ Parsed(m.ops[1].obj) # {} THEN
              /\ filt' = [pc |-> "read", msg |-> m, id |-> Least(Parsed(m.ops[1].obj)),
                          todo |-> Parsed(m.ops[1].obj), kept |-> {}]
              /\ verdict' = NoVerdict
          ELSE IF IsSnapshot(m) THEN
              Given(m, "rewrite", {}, agent_task_ids)
          ELSE
              Given(m, "emit", {}, agent_task_ids)
    /\ UNCHANGED <<forge_agents, agent_task_ids, cacheWriter, committed, refresh, tornRead>>
    /\ UNCHANGED notKanban

\* What the filter does once is_agent_task has answered for filt.id.
Answered(isAgent, hidden) ==
    IF IsTaskUpsert(filt.msg) THEN
        Given(filt.msg,
              IF DropTask(isAgent, filt.msg.ops[1].value.status) THEN "drop" ELSE "emit",
              {}, hidden)
    ELSE
        LET o    == filt.msg.ops[1].obj
            kept == IF DropTask(isAgent, Entry(o, filt.id).status)
                    THEN filt.kept ELSE filt.kept \cup {filt.id}
            rest == filt.todo \ {filt.id}
        IN IF rest = {} THEN Given(filt.msg, "rewrite", kept, hidden)
           ELSE /\ filt' = [filt EXCEPT !.pc = "read", !.id = Least(rest),
                                        !.todo = rest, !.kept = kept]
                /\ verdict' = verdict

\* is_agent_task: the cache is checked under the read lock (tasks.rs:380-385).
FilterRead ==
    /\ filt.pc = "read"
    /\ CanRead
    /\ tornRead' = (tornRead \/ agent_task_ids # committed)
    /\ IF filt.id \in agent_task_ids
       THEN Answered(TRUE, agent_task_ids)
       ELSE /\ filt' = [filt EXCEPT !.pc = "db"]
            /\ verdict' = verdict
    /\ UNCHANGED <<forge_agents, agent_task_ids, cacheWriter, committed, refresh>>
    /\ UNCHANGED notKanban

\* is_agent_task: the point lookup in forge_agents; an error counts as "no".
FilterLookup ==
    /\ filt.pc = "db"
    /\ \E ok \in BOOLEAN :
          IF ok /\ filt.id \in forge_agents
          THEN /\ filt' = [filt EXCEPT !.pc = "insert"]
               /\ verdict' = verdict
          ELSE Answered(FALSE, agent_task_ids)
    /\ UNCHANGED <<forge_agents, agent_task_ids, cacheWriter, committed, refresh, tornRead>>
    /\ UNCHANGED notKanban

\* (variant: the confirmed id is not cached)
FilterInsert_NoInsert ==
    /\ filt.pc = "insert"
    /\ CanWrite
    /\ Answered(TRUE, agent_task_ids)
    /\ UNCHANGED <<forge_agents, agent_task_ids, committed, cacheWriter, refresh, tornRead>>
    /\ UNCHANGED notKanban

\* is_agent_task: the id is inserted under the write lock (tasks.rs:396-399).
FilterInsert ==
    /\ filt.pc = "insert"
    /\ CanWrite
    /\ agent_task_ids' = agent_task_ids \cup {filt.id}
    /\ committed' = agent_task_ids \cup {filt.id}
    /\ Answered(TRUE, agent_task_ids \cup {filt.id})
    /\ UNCHANGED <<forge_agents, cacheWriter, refresh, tornRead>>
    /\ UNCHANGED notKanban

\* The send loop (tasks.rs:354-366): a dropped item is not seen by it; an item
\* is sent to the client; an error item or a failed send ends the loop, and the
\* refresh task is aborted.
ForwardItem ==
    /\ filt.pc = "given"
    /\ \E sent \in BOOLEAN :
          filt' = [Idle EXCEPT !.pc =
                      IF verdict.v # "drop" /\ (filt.msg.type = "err" \/ ~sent)
                      THEN "closed" ELSE "next"]
    /\ verdict' = NoVerdict
    /\ UNCHANGED <<forge_agents, agent_task_ids, cacheWriter, committed, refresh, tornRead>>
    /\ UNCHANGED notKanban

\* The state when the socket has been upgraded: the hidden set holds the
\* result of the initial query (nothing when the query failed).
KanbanInit ==
    /\ forge_agents \in SUBSET StreamIds
    /\ agent_task_ids \in {forge_agents, {}}
    /\ committed = agent_task_ids
    /\ cacheWriter = "none"
    /\ refresh = [pc |-> "tick", tasks |-> {}]
    /\ filt = Idle
    /\ verdict = NoVerdict
    /\ tornRead = FALSE

KanbanIdle ==
    /\ agent_task_ids = {}
    /\ committed = {}
    /\ cacheWriter = "none"
    /\ refresh = [pc |-> "tick", tasks |-> {}]
    /\ filt = Idle
    /\ verdict = NoVerdict
    /\ tornRead = FALSE

KanbanNext ==
    \/ RefreshQuery \/ RefreshLock \/ RefreshClear \/ RefreshExtend \/ RefreshUnlock
    \/ RegisterAgent
    \/ FilterNext \/ FilterRead \/ FilterLookup \/ FilterInsert \/ ForwardItem

(***************************************************************************)
(*          THE WEBSOCKET LOOPS: handle_logs_ws, handle_kanban_tasks_ws    *)
(***************************************************************************)

\* Upstream items waiting to be read by a loop
MaxPending == 2

Loops == {"logs", "kanban"}

\* What the upstream stream yields: a message that is sent on, or (kanban
\* only) a patch the filter drops, for which filter_map yields nothing.
Items(l) == IF l = "kanban" THEN {"visible", "hidden"} ELSE {"visible"}

\* A loop after the socket is split: running, the client connected, the
\* upstream stream open with nothing pending; `drain` is the task spawned over
\* the receiver and `refresh` the cache refresh task (kanban only).
NewLoop(l) ==
    [pc |-> "loop", client |-> "open", upstream |-> "open", queue |-> <<>>,
     drain |-> IF l = "kanban" THEN "running" ELSE "none",
     refresh |-> IF l = "kanban" THEN "running" ELSE "none"]

\* The upstream stream has an item for the loop.
UpstreamEvent(l) ==
    /\ ws[l].upstream = "open" /\ Len(ws[l].queue) < MaxPending
    /\ \E item \in Items(l) : ws' = [ws EXCEPT ![l].queue = Append(@, item)]
    /\ UNCHANGED notWs

\* The upstream stream ends (None) or fails (Some(Err)).
UpstreamEnd(l) ==
    /\ ws[l].upstream = "open"
    /\ \E how \in {"ended", "errored"} : ws' = [ws EXCEPT ![l].upstream = how]
    /\ UNCHANGED notWs

\* The client closes its side: receiver.next() yields None, sender.send fails.
ClientClose(l) ==
    /\ ws[l].client = "open"
    /\ ws' = [ws EXCEPT ![l].client = "closed"]
    /\ UNCHANGED notWs

\* stream.next() is ready: an item is pending or the stream is over.
StreamReady(l) == ws[l].queue # <<>> \/ ws[l].upstream # "open"

\* The loop after the item stream.next() yields: a message is sent, and the
\* loop breaks when the send fails; a dropped patch is skipped; the end or an
\* error of the stream breaks the loop.
TakeItem(l) ==
    IF ws[l].queue = <<>> THEN [ws[l] EXCEPT !.pc = "done"]
    ELSE IF Head(ws[l].queue) = "hidden" THEN [ws[l] EXCEPT !.queue = Tail(@)]
    ELSE IF ws[l].client = "closed" THEN [ws[l] EXCEPT !.pc = "done", !.queue = Tail(@)]
    ELSE [ws[l] EXCEPT !.queue = Tail(@)]

\* handle_logs_ws, one turn of `loop { tokio::select! { ... } }`: the branch
\* of the stream, or the branch of the receiver, which breaks on None.
LogsLoop ==
    /\ ws["logs"].pc = "loop"
    /\ \/ /\ StreamReady("logs")
          /\ ws' = [ws EXCEPT !["logs"] = TakeItem("logs")]
       \/ /\ ws["logs"].client = "closed"
          /\ ws' = [ws EXCEPT !["logs"].pc = "done"]
    /\ UNCHANGED notWs

\* handle_kanban_tasks_ws, one turn of `while let Some(item) =
\* stream.next().await`, and refresh_task_handle.abort() after the loop.
KanbanLoop ==
    /\ ws["kanban"].pc = "loop"
    /\ StreamReady("kanban")
    /\ ws' = [ws EXCEPT !["kanban"] =
                 IF TakeItem("kanban").pc = "done"
                 THEN [TakeItem("kanban") EXCEPT !.refresh = "aborted"]
                 ELSE TakeItem("kanban")]
    /\ UNCHANGED notWs

\* tokio::spawn(async move { while let Some(Ok(_)) = receiver.next().await {} })
KanbanDrain ==
    /\ ws["kanban"].drain = "running"
    /\ ws["kanban"].client = "closed"
    /\ ws' = [ws EXCEPT !["kanban"].drain = "ended"]
    /\ UNCHANGED notWs

WsEnvironment == \E l \in Loops : UpstreamEvent(l) \/ UpstreamEnd(l) \/ ClientClose(l)

WsInit == ws = [l \in Loops |-> NewLoop(l)]

WsIdle == WsInit

WsNext == WsEnvironment \/ LogsLoop \/ KanbanLoop \/ KanbanDrain

(***************************************************************************)
(*                 THE PROFILE FILE WATCHER: watch_loop                    *)
(***************************************************************************)

\* File events the watcher reports in a behaviour, and events waiting in the
\* channel
MaxEvents == 3
MaxQueue == 2

\* debounce_duration (500 ms) in turns of recv_timeout (100 ms)
DebounceTicks == 5

\* notify::EventKind, and whether a path of the event has the extension "md"
EventKinds == {"Create", "Modify", "Remove", "Access"}
Events == [kind : EventKinds, md : BOOLEAN]

\* is_relevant_event
is_relevant_event(event) == event.kind \in {"Create", "Modify", "Remove"} /\ event.md

\* The loop at its start: nothing pending, last_reload = now. `since` counts
\* the 100 ms turns since last_reload, up to the debounce; `stale` says that a
\* relevant change of the disk is not loaded yet; `last` is the outcome of the
\* reload of the last turn; `quiet` counts the turns since the loop received
\* its most recent relevant event.
NewWatch ==
    [pending_reload |-> FALSE, since |-> 0, queue |-> <<>>, events |-> 0,
     stale |-> FALSE, last |-> "none", quiet |-> 0]

\* Time that passes in a turn of the loop
Later(since, ticks) == IF since + ticks >= DebounceTicks THEN DebounceTicks ELSE since + ticks

\* The watcher's callback: tx.send(event)
FsEvent ==
    /\ watch.events < MaxEvents /\ Len(watch.queue) < MaxQueue
    /\ \E event \in Events :
          watch' = [watch EXCEPT !.queue = Append(@, event), !.events = @ + 1,
                                 !.stale = @ \/ is_relevant_event(event)]
    /\ UNCHANGED notWatch

\* rx.recv_timeout(100 ms) = Ok(event), within the 100 ms
WatchRecv ==
    /\ watch.queue # <<>>
    /\ \E ticks \in {0, 1} :
          watch' = [watch EXCEPT !.queue = Tail(@),
                       !.pending_reload = @ \/ is_relevant_event(Head(watch.queue)),
                       !.since = Later(@, ticks), !.last = "none",
                       !.quiet = IF is_relevant_event(Head(watch.queue)) THEN 0
                                 ELSE Later(@, ticks)]
    /\ UNCHANGED notWatch

\* pending_reload && last_reload.elapsed() > debounce_duration, after the
\* 100 ms of the timeout
ReloadDue == watch.pending_reload /\ Later(watch.since, 1) >= DebounceTicks

\* rx.recv_timeout = Err(Timeout) and no reload is due
WatchTimeout ==
    /\ watch.queue = <<>> /\ ~ReloadDue
    /\ watch' = [watch EXCEPT !.since = Later(@, 1), !.last = "none", !.quiet = Later(@, 1)]
    /\ UNCHANGED notWatch

\* (variant: a failed reload drops the flag)
AfterReload_Drop(ok) ==
    IF ok THEN [watch EXCEPT !.pending_reload = FALSE, !.since = 0, !.stale = FALSE,
                             !.last = "ok", !.quiet = Later(@, 1)]
    ELSE [watch EXCEPT !.pending_reload = FALSE, !.since = Later(@, 1), !.last = "failed",
                       !.quiet = Later(@, 1)]

\* match runtime.block_on(self.reload()): Ok clears pending_reload and sets
\* last_reload; Err keeps both.
AfterReload(ok) ==
    IF ok THEN [watch EXCEPT !.pending_reload = FALSE, !.since = 0, !.stale = FALSE,
                             !.last = "ok", !.quiet = Later(@, 1)]
    ELSE [watch EXCEPT !.since = Later(@, 1), !.last = "failed", !.quiet = Later(@, 1)]

\* rx.recv_timeout = Err(Timeout) and the reload is due: it succeeds
WatchReloadOk ==
    /\ watch.queue = <<>> /\ ReloadDue
    /\ watch' = AfterReload(TRUE)
    /\ UNCHANGED notWatch

\* ... or fails
WatchReloadErr ==
    /\ watch.queue = <<>> /\ ReloadDue
    /\ watch' = AfterReload(FALSE)
    /\ UNCHANGED notWatch

watch_loop == WatchRecv \/ WatchTimeout \/ WatchReloadOk \/ WatchReloadErr

WatchInit == watch = NewWatch

WatchIdle == WatchInit

WatchNext == FsEvent \/ watch_loop

(***************************************************************************)
(*       THE PROFILE CACHE: ProfileCacheManager and ProfileCache           *)
(***************************************************************************)

\* The tasks that call get_or_create for the one workspace path; the cache a
\* call makes is named after its caller.
Callers == {"c1", "c2"}

\* Variants: those of ExecutorConfigs::load(), those a .genie folder can add.
BaseVariants == {"DEFAULT"}
GenieVariants == {"a"}

NoCache == "none"

\* ProfileCache::new: no executors, last_count 0; no lock held, no watcher.
NewCache ==
    [made |-> TRUE, profiles |-> {}, last_count |-> 0,
     profiles_lock |-> "none", count_lock |-> "none", watching |-> FALSE]

NoCacheObject == [NewCache EXCEPT !.made = FALSE]

NoCall38 == [pc |-> "idle", loaded |-> {}, result |-> NoCache]

NoReload == [pc |-> "idle", new_profiles |-> {}]

\* load_profiles_now: the base profiles, with the .genie variants merged in
load_profiles_now == BaseVariants \cup disk.variants

\* count_variants
count_variants(profiles) == Cardinality(profiles)

\* get_or_create: "Check if cache exists", under the read lock of the map
GocRead(c) ==
    /\ goc[c].pc = "idle"
    /\ goc' = [goc EXCEPT ![c] =
                  IF caches_by_path # NoCache
                  THEN [NoCall38 EXCEPT !.pc = "done", !.result = caches_by_path]
                  ELSE [NoCall38 EXCEPT !.pc = "new"]]
    /\ UNCHANGED <<caches_by_path, pcache, rel, disk>>
    /\ UNCHANGED notCache

\* "Create new cache": Arc::new(ProfileCache::new(workspace_root.clone()))
GocNew(c) ==
    /\ goc[c].pc = "new"
    /\ pcache' = [pcache EXCEPT ![c] = NewCache]
    /\ goc' = [goc EXCEPT ![c].pc = "load"]
    /\ UNCHANGED <<caches_by_path, rel, disk>>
    /\ UNCHANGED notCache

\* initialize: load_profiles_now()?; an error is get_or_create's error, and
\* the cache is dropped
InitLoad(c) ==
    /\ goc[c].pc = "load"
    /\ \E ok \in BOOLEAN :
          IF ok
          THEN /\ goc' = [goc EXCEPT ![c].pc = "profiles", ![c].loaded = load_profiles_now]
               /\ UNCHANGED pcache
          ELSE /\ goc' = [goc EXCEPT ![c] = [NoCall38 EXCEPT !.pc = "done", !.result = "error"]]
               /\ pcache' = [pcache EXCEPT ![c] = NoCacheObject]
    /\ UNCHANGED <<caches_by_path, rel, disk>>
    /\ UNCHANGED notCache

\* initialize: *self.profiles.write().await = profiles; the guard is a
\* temporary of the statement
InitProfiles(c) ==
    /\ goc[c].pc = "profiles"
    /\ pcache[c].profiles_lock = "none"
    /\ pcache' = [pcache EXCEPT ![c].profiles = goc[c].loaded]
    /\ goc' = [goc EXCEPT ![c].pc = "count"]
    /\ UNCHANGED <<caches_by_path, rel, disk>>
    /\ UNCHANGED notCache

\* initialize: *self.last_count.write().await = count
InitCount(c) ==
    /\ goc[c].pc = "count"
    /\ pcache[c].count_lock = "none"
    /\ pcache' = [pcache EXCEPT ![c].last_count = count_variants(goc[c].loaded)]
    /\ goc' = [goc EXCEPT ![c].pc = "watch"]
    /\ UNCHANGED <<caches_by_path, rel, disk>>
    /\ UNCHANGED notCache

initialize(c) == InitLoad(c) \/ InitProfiles(c) \/ InitCount(c)

\* start_watching: nothing to watch without a .genie folder; otherwise the
\* watcher thread is spawned with a clone of the cache
start_watching(c) ==
    /\ goc[c].pc = "watch"
    /\ pcache' = [pcache EXCEPT ![c].watching = disk.genie]
    /\ goc' = [goc EXCEPT ![c].pc = "store"]
    /\ UNCHANGED <<caches_by_path, rel, disk>>
    /\ UNCHANGED notCache

\* "Store cache": caches_by_path.write().await.insert(workspace_root, cache)
GocStore(c) ==
    /\ goc[c].pc = "store"
    /\ caches_by_path' = c
    /\ goc' = [goc EXCEPT ![c].pc = "done", ![c].result = c]
    /\ UNCHANGED <<pcache, rel, disk>>
    /\ UNCHANGED notCache

\* The caller has its answer; the task may call again.
GocReturn(c) ==
    /\ goc[c].pc = "done"
    /\ \A o \in Callers : goc[o].pc \in {"idle", "done"}
    /\ goc' = [goc EXCEPT ![c] = NoCall38]
    /\ UNCHANGED <<caches_by_path, pcache, rel, disk>>
    /\ UNCHANGED notCache

get_or_create(c) ==
    \/ GocRead(c) \/ GocNew(c) \/ initialize(c) \/ start_watching(c) \/ GocStore(c)
    \/ GocReturn(c)

\* reload, run by the watcher thread of cache k: last_count is read and the
\* profiles are loaded; an error leaves the cache as it is
ReloadLoad(k) ==
    /\ pcache[k].watching /\ rel[k].pc = "idle"
    /\ pcache[k].count_lock = "none"
    /\ \E ok \in BOOLEAN :
          rel' = IF ok THEN [rel EXCEPT ![k] = [pc |-> "loaded", new_profiles |-> load_profiles_now]]
                 ELSE rel
    /\ UNCHANGED <<caches_by_path, pcache, goc, disk>>
    /\ UNCHANGED notCache

\* let mut profiles_guard = self.profiles.write().await
ReloadLockProfiles(k) ==
    /\ rel[k].pc = "loaded"
    /\ pcache[k].profiles_lock = "none"
    /\ pcache' = [pcache EXCEPT ![k].profiles_lock = "reload"]
    /\ rel' = [rel EXCEPT ![k].pc = "profiles_locked"]
    /\ UNCHANGED <<caches_by_path, goc, disk>>
    /\ UNCHANGED notCache

\* let mut count_guard = self.last_count.write().await
ReloadLockCount(k) ==
    /\ rel[k].pc = "profiles_locked"
    /\ pcache[k].count_lock = "none"
    /\ pcache' = [pcache EXCEPT ![k].count_lock = "reload"]
    /\ rel' = [rel EXCEPT ![k].pc = "locked"]
    /\ UNCHANGED <<caches_by_path, goc, disk>>
    /\ UNCHANGED notCache

\* *profiles_guard = new_profiles
ReloadProfiles(k) ==
    /\ rel[k].pc = "locked"
    /\ pcache' = [pcache EXCEPT ![k].profiles = rel[k].new_profiles]
    /\ rel' = [rel EXCEPT ![k].pc = "profiles_written"]
    /\ UNCHANGED <<caches_by_path, goc, disk>>
    /\ UNCHANGED notCache

\* *count_guard = new_count, and the two guards are dropped with the block
ReloadCount(k) ==
    /\ rel[k].pc = "profiles_written"
    /\ pcache' = [pcache EXCEPT ![k].last_count = count_variants(rel[k].new_profiles),
                                ![k].profiles_lock = "none", ![k].count_lock = "none"]
    /\ rel' = [rel EXCEPT ![k] = NoReload]
    /\ UNCHANGED <<caches_by_path, goc, disk>>
    /\ UNCHANGED notCache

reload(k) ==
    \/ ReloadLoad(k) \/ ReloadLockProfiles(k) \/ ReloadLockCount(k)
    \/ ReloadProfiles(k) \/ ReloadCount(k)

\* A profile file is written or removed in the workspace's .genie folder.
DiskChange ==
    /\ disk.genie
    /\ \E v \in SUBSET GenieVariants :
          /\ v # disk.variants
          /\ disk' = [disk EXCEPT !.variants = v]
    /\ UNCHANGED <<caches_by_path, pcache, goc, rel>>
    /\ UNCHANGED notCache

CacheRest ==
    /\ caches_by_path = NoCache
    /\ pcache = [c \in Callers |-> NoCacheObject]
    /\ goc = [c \in Callers |-> NoCall38]
    /\ rel = [c \in Callers |-> NoReload]

\* A manager without caches, and a workspace with or without a .genie folder.
CacheInit ==
    /\ CacheRest
    /\ disk \in [genie : BOOLEAN, variants : SUBSET GenieVariants]
    /\ ~disk.genie => disk.variants = {}

CacheIdle == CacheRest /\ disk = [genie |-> FALSE, variants |-> {}]

CacheNext == (\E c \in Callers : get_or_create(c) \/ reload(c)) \/ DiskChange

(***************************************************************************)
(*            THE MCP SERVER: protocol version negotiation                 *)
(***************************************************************************)

\* Bound: protocol versions are numbered by date, 0..MaxVersion.
MaxVersion == 6

\* The two versions the server supports, by date.
V_2025_03_26 == 4
V_2024_11_05 == 2

\* A version that compares with no other (partial_cmp yields None).
Incomparable == 0 - 1

ProtocolVersions == (0..MaxVersion) \cup {Incomparable}

\* (variant: the list is ordered oldest first)
SUPPORTED_PROTOCOL_VERSIONS_OldestFirst == <<V_2024_11_05, V_2025_03_26>>

\* const SUPPORTED_PROTOCOL_VERSIONS, newest first
SUPPORTED_PROTOCOL_VERSIONS == <<V_2025_03_26, V_2024_11_05>>

supported_protocol_versions == SUPPORTED_PROTOCOL_VERSIONS
latest_supported_protocol == supported_protocol_versions[1]
minimum_supported_protocol == supported_protocol_versions[Len(supported_protocol_versions)]

\* requested.partial_cmp(supported)
partial_cmp(a, b) ==
    IF a = Incomparable \/ b = Incomparable THEN "None"
    ELSE IF a > b THEN "Greater"
    ELSE IF a = b THEN "Equal"
    ELSE "Less"

\* The loop of negotiate_protocol_version from the i-th supported version on,
\* and the error after it.
RECURSIVE negotiate_from(_, _)
negotiate_from(requested, i) ==
    IF i > Len(supported_protocol_versions) THEN
        [ok |-> FALSE, version |-> minimum_supported_protocol, error |-> "invalid_params",
         message |-> "older_than_minimum"]
    ELSE LET supported == supported_protocol_versions[i]
             ord == partial_cmp(requested, supported)
         IN IF ord \in {"Greater", "Equal"} THEN
                [ok |-> TRUE, version |-> supported, error |-> "none", message |-> "none"]
            ELSE IF ord = "Less" THEN negotiate_from(requested, i + 1)
            ELSE [ok |-> FALSE, version |-> supported, error |-> "invalid_params",
                  message |-> "unable_to_compare"]

negotiate_protocol_version(requested) == negotiate_from(requested, 1)

NoPeer == 0 - 2

NoAnswer ==
    [op |-> "none", requested |-> 0, ok |-> FALSE, protocol_version |-> 0,
     error |-> "none", message |-> "none", before |-> 0]

\* ServerHandler::initialize: the peer info is kept when none is set yet; the
\* negotiated version is stored and answered, or the negotiation's error is
\* returned
McpInitialize ==
    /\ \E requested \in ProtocolVersions :
          LET n == negotiate_protocol_version(requested)
          IN mcp' = [mcp EXCEPT
                !.peer_info = IF @ = NoPeer THEN requested ELSE @,
                !.negotiated_protocol_version = IF n.ok THEN n.version ELSE @,
                !.answer = [op |-> "initialize", requested |-> requested, ok |-> n.ok,
                            protocol_version |-> n.version, error |-> n.error,
                            message |-> n.message,
                            before |-> mcp.negotiated_protocol_version]]
    /\ UNCHANGED notMcp

\* ServerHandler::get_info
get_info ==
    /\ mcp' = [mcp EXCEPT !.answer =
                  [NoAnswer EXCEPT !.op = "get_info", !.ok = TRUE,
                                   !.protocol_version = mcp.negotiated_protocol_version,
                                   !.before = mcp.negotiated_protocol_version]]
    /\ UNCHANGED notMcp

\* BeltServer::new
McpInit ==
    mcp = [negotiated_protocol_version |-> latest_supported_protocol,
           peer_info |-> NoPeer, answer |-> NoAnswer]

McpIdle == McpInit

McpNext == McpInitialize \/ get_info

(***************************************************************************)
(*                           SPECIFICATIONS                                *)
(***************************************************************************)

InitGit == GitInit /\ RunIdle /\ StoreIdle /\ BoardIdle /\ ArchiveIdle /\ KanbanIdle /\ RowsIdle /\ WsIdle /\ WatchIdle /\ CacheIdle /\ McpIdle
NextGit == GitNext
SpecGit == InitGit /\ [][NextGit]_vars

InitRun == RunInit /\ GitIdle /\ StoreIdle /\ BoardIdle /\ ArchiveIdle /\ KanbanIdle /\ RowsIdle /\ WsIdle /\ WatchIdle /\ CacheIdle /\ McpIdle
NextRun == RunNext
SpecRun == InitRun /\ [][NextRun]_vars

InitStore == StoreInit /\ BoardIdle /\ ArchiveIdle /\ GitIdle /\ RunIdle /\ KanbanIdle /\ RowsIdle /\ WsIdle /\ WatchIdle /\ CacheIdle /\ McpIdle
NextStore == StoreNext
SpecStore == InitStore /\ [][NextStore]_vars

InitBoard == BoardInit /\ ArchiveIdle /\ GitIdle /\ RunIdle /\ KanbanIdle /\ RowsIdle /\ WsIdle /\ WatchIdle /\ CacheIdle /\ McpIdle
NextBoard == BoardNext
SpecBoard == InitBoard /\ [][NextBoard]_vars

\* The two handlers that create a subject and ask for its start.
InitStart == BoardInit /\ RunInit /\ ArchiveIdle /\ GitIdle /\ KanbanIdle /\ RowsIdle /\ WsIdle /\ WatchIdle /\ CacheIdle /\ McpIdle
NextStart == CreateTaskAndStart \/ CreateExecutionRun
SpecStart == InitStart /\ [][NextStart]_vars

InitArchive == ArchiveInit /\ BoardIdle /\ GitIdle /\ RunIdle /\ KanbanIdle /\ RowsIdle /\ WsIdle /\ WatchIdle /\ CacheIdle /\ McpIdle
NextArchive == ArchiveNext
SpecArchive == InitArchive /\ [][NextArchive]_vars

\* Every spawned cleanup task is scheduled by the runtime: a step of it that
\* stays possible is taken. The clients' calls are under no such condition.
SpecArchiveLive == SpecArchive /\ \A t \in TaskIds : WF_vars(ArchiveTask(t))

InitRows == RowsInit /\ StoreIdle /\ BoardIdle /\ ArchiveIdle /\ GitIdle /\ RunIdle /\ KanbanIdle /\ WsIdle /\ WatchIdle /\ CacheIdle /\ McpIdle
NextRows == RowsNext
SpecRows == InitRows /\ [][NextRows]_vars

\* The flags of attempts and of runs together: a task with two attempts and
\* their worktrees, and the run records.
FlagsInit ==
    /\ ArchiveInit
    /\ attempts[2].task = 1 /\ attempts[2].container_ref

InitFlags == FlagsInit /\ RowsInit /\ BoardIdle /\ GitIdle /\ RunIdle /\ KanbanIdle /\ WsIdle /\ WatchIdle /\ CacheIdle /\ McpIdle
\* The run whose flag is followed next to the attempts'.
FlagRun == CHOOSE r \in RunUuids : TRUE

NextFlags ==
    \/ ArchiveNext
    \/ RunCreateFor(FlagRun) \/ UpdateContainerRefFor(FlagRun) \/ MarkWorktreeDeletedFor(FlagRun)
SpecFlags == InitFlags /\ [][NextFlags]_vars

InitWs == WsInit /\ RowsIdle /\ StoreIdle /\ BoardIdle /\ ArchiveIdle /\ GitIdle /\ RunIdle /\ KanbanIdle /\ WatchIdle /\ CacheIdle /\ McpIdle
NextWs == WsNext
SpecWs == InitWs /\ [][NextWs]_vars

\* The loops and the drain task are tasks of the runtime: a turn that stays
\* possible is taken. Nothing makes the upstream or the client act.
SpecWsLive == SpecWs /\ WF_vars(LogsLoop) /\ WF_vars(KanbanLoop) /\ WF_vars(KanbanDrain)

InitWatch == WatchInit /\ WsIdle /\ RowsIdle /\ StoreIdle /\ BoardIdle /\ ArchiveIdle /\ GitIdle /\ RunIdle /\ KanbanIdle /\ CacheIdle /\ McpIdle
NextWatch == WatchNext
SpecWatch == InitWatch /\ [][NextWatch]_vars

\* The watcher thread runs: a turn of the loop that stays possible is taken;
\* and reloads succeed in the end: a reload that stays due succeeds at some
\* turn.
SpecWatchLive == SpecWatch /\ WF_vars(watch_loop) /\ WF_vars(WatchReloadOk)

InitCache == CacheInit /\ WatchIdle /\ WsIdle /\ RowsIdle /\ StoreIdle /\ BoardIdle /\ ArchiveIdle /\ GitIdle /\ RunIdle /\ KanbanIdle /\ McpIdle
NextCache == CacheNext
SpecCache == InitCache /\ [][NextCache]_vars

InitMcp == McpInit /\ CacheIdle /\ WatchIdle /\ WsIdle /\ RowsIdle /\ StoreIdle /\ BoardIdle /\ ArchiveIdle /\ GitIdle /\ RunIdle /\ KanbanIdle
NextMcp == McpNext
SpecMcp == InitMcp /\ [][NextMcp]_vars

InitKanban == KanbanInit /\ StoreRest /\ BoardIdle /\ ArchiveIdle /\ GitIdle /\ RunIdle /\ RowsIdle /\ WsIdle /\ WatchIdle /\ CacheIdle /\ McpIdle
NextKanban == KanbanNext
SpecKanban == InitKanban /\ [][NextKanban]_vars

(***************************************************************************)
(*                  PROPERTIES OF THE EXECUTION RUNS                       *)
(***************************************************************************)

\* The status moves the state machine pending -> running -> terminal allows.
StatusMove(a, b) ==
    \/ a = b
    \/ a = "pending" /\ b = "running"
    \/ a = "running" /\ b \in Terminal

\* C5 (as claimed): a process status only moves pending -> running -> completed,
\* failed or killed, and no operation, stop included, changes the status of a
\* process that is completed, failed or killed.
C5_ProcessStateMachine ==
    [][\A i \in 1..Len(procs) : StatusMove(procs[i].status, procs'[i].status)]_vars

\* The step is a call of follow_up on run r that has built its action.
FollowUpBuilt(r) ==
    /\ runRes'.op = "follow_up" /\ runRes'.run = r
    /\ (runRes' # runRes \/ Len(procs') > Len(procs))
    /\ runRes'.action # NoAction

\* The processes of run r that have a session id, before the step.
WithSession(r) == {i \in ProcsOf(r) : procs[i].session # NoSession}

Newest(S) == CHOOSE i \in S : \A j \in S : j <= i

\* C15: follow_up builds a continue-session action with the session id of the
\* run's most recent process that has one, a fresh action exactly when no
\* process of the run has a session id, and in both cases with the prompt of
\* the request.
C15_ContinuesLatestSession ==
    [][\A r \in RunIds :
          FollowUpBuilt(r) =>
              /\ runRes'.action.prompt = runRes'.req.prompt
              /\ IF WithSession(r) = {}
                 THEN runRes'.action.type = "initial"
                 ELSE /\ runRes'.action.type = "follow_up"
                      /\ runRes'.action.session_id = procs[Newest(WithSession(r))].session]_vars

\* A third process was started as a follow-up that continues the session of
\* the first, the second never having opened one.
C15_Witness ==
    /\ runRes.op = "follow_up" /\ runRes.ok /\ runRes.process = 3
    /\ procs[1].session # NoSession /\ procs[2].session = NoSession
    /\ procs[2].run_reason = "codingagent"
    /\ runRes.action.type = "follow_up" /\ runRes.action.session_id = procs[1].session
    /\ runRes.action.prompt = "p2"

\* C16: the profile follow_up uses has the executor of the run's most recent
\* coding-agent process record, and the variant of the request when it gives
\* one, that of the most recent process otherwise; a started process records
\* the profile used, so a variant switched on an earlier turn stays in effect.
C16_ProfileFromLatestProcess ==
    [][\A r \in RunIds :
          (FollowUpBuilt(r) /\ find_latest_by_execution_run_and_run_reason(r, "codingagent") # 0)
          => LET i == find_latest_by_execution_run_and_run_reason(r, "codingagent")
                 used == runRes'.action.profile
             IN /\ used.executor = procs[i].executor
                /\ used.variant = IF runRes'.req.variant # NoVariant
                                  THEN runRes'.req.variant ELSE procs[i].variant
                /\ runRes'.ok =>
                      /\ procs'[Len(procs')].executor = used.executor
                      /\ procs'[Len(procs')].variant = used.variant]_vars

\* The run was created without a variant, a follow-up switched to v1, and a
\* later follow-up without an override has used v1.
C16_Witness ==
    /\ runRes.op = "follow_up" /\ runRes.ok /\ runRes.process = 3
    /\ \A i \in 1..3 : procs[i].run_reason = "codingagent"
    /\ procs[1].variant = NoVariant /\ procs[2].variant = "v1"
    /\ runRes.req.variant = NoVariant /\ runRes.action.profile.variant = "v1"
    /\ procs[3].variant = "v1"

\* The coding-agent processes of run r that are not terminal.
LiveAgents(r) ==
    {i \in ProcsOf(r) : procs[i].run_reason = "codingagent" /\ procs[i].status \notin Terminal}

\* The step is a call of stop_execution_run on run r.
StopCalled(r) ==
    /\ runRes'.op = "stop" /\ runRes'.run = r
    /\ \/ runRes' # runRes
       \/ \E i \in 1..Len(procs) : procs'[i].status = "killed" /\ procs[i].status # "killed"

\* C17 (as claimed): a stop on a run that has no non-terminal coding-agent
\* process succeeds and changes no process status (so a second stop leaves
\* what the first left).
C17_StopWithoutLiveIsNoOp ==
    [][\A r \in RunIds :
          (StopCalled(r) /\ LiveAgents(r) = {}) => (runRes'.ok /\ procs' = procs)]_vars

\* C18 (as claimed): at most one process of a run is non-terminal at any time.
C18_OneLiveProcess ==
    \A r \in RunIds :
        Cardinality({i \in ProcsOf(r) : procs[i].status \notin Terminal}) <= 1

(***************************************************************************)
(*                      PROPERTIES OF delete_task                          *)
(***************************************************************************)

\* The step in which call d answers the running-process check on its task.
Checks(d) == del[d].pc = "idle" /\ del'[d].pc # "idle"

StoreUntouched ==
    /\ tasks' = tasks /\ attempts' = attempts /\ aproc' = aproc
    /\ forge_agents' = forge_agents /\ worktrees' = worktrees
    /\ dbWriter' = dbWriter /\ txn' = txn

\* C3: a delete_task called on a task that has at least one running process
\* answers with the conflict error, and has changed no task, attempt or child
\* row, opened no transaction and started no worktree cleanup.
C3_RunningDeleteConflicts ==
    [][\A d \in DelCalls :
          (Checks(d) /\ has_running_processes(del'[d].task)) =>
              /\ del'[d].pc = "done" /\ del'[d].result = "conflict"
              /\ ~del'[d].began /\ del'[d].cleanup = {}
              /\ StoreUntouched]_vars

C3_Witness ==
    \E d \in DelCalls :
        /\ del[d].result = "conflict" /\ has_running_processes(del[d].task)
        /\ \E c \in TaskIds : tasks[c].parent \in AttemptsOf(Committed, del[d].task)

\* No committed task references a missing attempt, and no committed attempt
\* belongs to a missing task.
NoDanglingReference ==
    /\ \A c \in TaskIds :
          (tasks[c].exists /\ tasks[c].parent # NoAttempt) => attempts[tasks[c].parent].exists
    /\ \A a \in AttemptIds : attempts[a].exists => tasks[attempts[a].task].exists

\* The committed rows after the whole deletion of task t: every child of one of
\* its attempts nullified, the task and its attempts gone.
WhollyDeleted(t) ==
    /\ tasks[t].exists
    /\ tasks' = [c \in TaskIds |->
                    IF c = t THEN NoTask
                    ELSE IF tasks[c].parent \in AttemptsOf(Committed, t)
                         THEN [tasks[c] EXCEPT !.parent = NoAttempt] ELSE tasks[c]]
    /\ attempts' = [a \in AttemptIds |->
                    IF a \in AttemptsOf(Committed, t) THEN NoAttemptRow ELSE attempts[a]]

\* C4: the rows any reader can see change by a delete only from the state
\* before it to the state in which every child of the task's attempts is
\* nullified and the task and its attempts are gone, in one step; so no reader
\* sees some children nullified only, or a child referencing an attempt of a
\* task that is gone, and after a successful delete nothing references an
\* attempt of the deleted task.
C4_DeleteIsAtomic ==
    /\ []NoDanglingReference
    /\ [][(tasks' # tasks \/ attempts' # attempts) => \E t \in TaskIds : WhollyDeleted(t)]_vars

C4_Witness ==
    \E d \in DelCalls :
        /\ del[d].result = "accepted" /\ ~tasks[del[d].task].exists
        /\ Cardinality(del[d].attempts) = 2
        /\ del[d].total_children_affected > 0
        /\ \E c \in TaskIds : tasks[c].exists

\* A call is at its worktree cleanup only with its deletion committed and its
\* success answered.
CleanupAfterCommit ==
    \A d \in DelCalls :
        del[d].pc = "cleanup" =>
            (del[d].result = "accepted" /\ del[d].began /\ ~tasks[del[d].task].exists)

\* The step removes worktrees on behalf of call d.
CleansUp(d) == del[d].pc = "cleanup" /\ del'[d].pc = "done"

\* C19: worktrees are removed only by the cleanup of a call whose deletion has
\* committed, so a call whose transaction failed removes none; and the end of
\* the cleanup, whatever it removed, leaves the committed deletion and the
\* answered success as they are.
C19_CleanupAfterCommitOnly ==
    /\ []CleanupAfterCommit
    /\ [][/\ worktrees' # worktrees =>
                \E d \in DelCalls : CleansUp(d) /\ worktrees \ worktrees' \subseteq del[d].cleanup
          /\ \A d \in DelCalls :
                CleansUp(d) =>
                    /\ del'[d].result = "accepted"
                    /\ tasks' = tasks /\ attempts' = attempts
                    /\ dbWriter' = dbWriter /\ txn' = txn]_vars

\* A cleanup has ended with a worktree left on disk; the deletion stands.
C19_Witness ==
    \E d \in DelCalls :
        /\ del[d].pc = "done" /\ del[d].result = "accepted"
        /\ del[d].cleanup \cap worktrees # {}
        /\ ~tasks[del[d].task].exists
        /\ \A a \in del[d].attempts : ~attempts[a].exists

\* The call's transaction commits in this step.
Commits(d) == del[d].pc = "commit" /\ del'[d].pc = "cleanup"

\* C34 (as claimed): a deletion never commits while a process of its task is
\* running, whatever process starts run beside it.
C34_NoCommitWhileRunning ==
    [][\A d \in DelCalls : Commits(d) => ~has_running_processes(del[d].task)]_vars

\* What the check does give: at the moment of the check no process of the
\* task was running.
CheckedWhenIdle ==
    [][\A d \in DelCalls :
          (Checks(d) /\ del'[d].pc = "fetch") => ~has_running_processes(del'[d].task)]_vars

\* The call executes its delete statement and the task row is gone.
DeletesMissing(d) ==
    /\ del[d].pc = "nullify" /\ del[d].todo = {} /\ del'[d] # del[d]
    /\ ~TxView(d).tasks[del[d].task].exists

\* C35: a delete statement that finds the task row gone makes the call return
\* the not-found error; its transaction is rolled back, so the committed rows
\* are as before and the write lock is free; and the call never reaches the
\* worktree cleanup, so no worktree is removed by it.
C35_MissingRowRollsBack ==
    /\ [][\A d \in DelCalls :
             DeletesMissing(d) =>
                 /\ del'[d].pc = "done" /\ del'[d].result = "not_found"
                 /\ tasks' = tasks /\ attempts' = attempts /\ aproc' = aproc
                 /\ worktrees' = worktrees
                 /\ dbWriter' = "none" /\ txn' = Committed]_vars
    /\ [](\A d \in DelCalls : del[d].result = "not_found" => del[d].pc = "done")

\* Two deletes of one task: one is accepted, the other finds the row gone.
C35_Witness ==
    \E d, o \in DelCalls :
        /\ del[d].result = "not_found" /\ del[d].began /\ del[d].attempts # {}
        /\ del[o].result = "accepted" /\ del[o].task = del[d].task
        /\ worktrees \cap del[d].cleanup # {}

\* The call that finds the row gone had nothing left to nullify.
MissingRowNullifiedNothing ==
    \A d \in DelCalls : del[d].result = "not_found" => del[d].total_children_affected = 0

(***************************************************************************)
(*                     PROPERTIES OF THE KANBAN LISTING                    *)
(***************************************************************************)

\* C2: no answer of get_tasks holds a task whose status is agent, whether or
\* not the task's forge_agents row exists yet.
C2_ListingHidesAgentStatus == \A x \in listing.tasks : x.status # "agent"

\* C36 (as claimed): in every state a task has status agent exactly when it
\* has a forge_agents row.
C36_AgentStatusIffMember ==
    \A t \in TaskIds : tasks[t].exists => (tasks[t].status = "agent" <=> t \in forge_agents)

\* What does hold: a forge_agents row is only ever written for a task created
\* with status agent, and a call that ran to its end left the two in step.
MemberHasAgentStatus ==
    /\ \A t \in forge_agents : tasks[t].exists /\ tasks[t].status = "agent"
    /\ \A t \in TaskIds :
          (cas[t].pc = "done" /\ cas[t].result = "ok")
              => (tasks[t].status = "agent" <=> t \in forge_agents)

(***************************************************************************)
(*                 PROPERTIES OF create_task_and_start                     *)
(***************************************************************************)

\* The task of each call carries the status chosen from the request's
\* use_worktree: todo when true or absent, agent when false.
StatusChosenUpFront ==
    \A t \in TaskIds :
        (cas[t].pc # "none" /\ tasks[t].exists) =>
            tasks[t].status = (IF cas[t].field = "false" THEN "agent" ELSE "todo")

\* C13: create_task_and_start inserts the task with its definitive status
\* (todo when use_worktree is true or absent, agent when false), so a task
\* created with use_worktree=false never has status todo, and no later step of
\* the call changes the status.
C13_StatusSetOnceAtInsert ==
    /\ []StatusChosenUpFront
    /\ [][\A t \in TaskIds : tasks[t].exists => tasks'[t].status = tasks[t].status]_vars

\* A call with use_worktree=false has run to its end.
C13_Witness ==
    \E t \in TaskIds :
        /\ cas[t].pc = "done" /\ cas[t].result = "ok" /\ cas[t].field = "false"
        /\ tasks[t].status = "agent" /\ t \in forge_agents

\* The step in which the container service has failed to start the attempt
\* of the call for task t.
StartFailsFor(t) ==
    /\ cas[t].pc = "attempted" /\ cas'[t].pc = "done"
    /\ aproc'[cas[t].attempt] # "running"

\* The step in which run r is created and the container service has failed to
\* start it.
RunStartFailsFor(r) == ~runs[r].exists /\ runs'[r].exists /\ procs' = procs

HasContainerRef(t, a) ==
    attempts[a].exists /\ attempts[a].task = t /\ attempts[a].container_ref

\* The worktree of attempt a is reclaimed: flagged deleted and gone from disk.
Reclaimed(a) == attempts[a].worktree_deleted /\ a \notin worktrees

\* An update_task that answers ok and takes the task it was given from a
\* status other than archived to archived spawns the task's cleanup.
ArchivingSpawns ==
    [][\A u \in UpdCalls :
          (/\ upd[u].pc = "loaded" /\ upd'[u].pc = "done" /\ upd'[u].result = "ok"
           /\ upd[u].existing_task.status # "archived"
           /\ tasks'[upd[u].task].status = "archived")
          => arch'[upd[u].task].pc = "spawned"]_vars

\* C20: after a task whose attempt has a container reference is archived, the
\* cleanup is spawned, and once spawned it leads to a state where the attempt
\* is flagged worktree_deleted and no worktree is left at its path, unless the
\* cleanup has failed (a read, the removal or an UPDATE of it).
C20_ArchiveReclaimsWorktree ==
    /\ ArchivingSpawns
    /\ \A t \in TaskIds, a \in AttemptIds :
          (arch[t].pc = "spawned" /\ HasContainerRef(t, a))
             ~> (Reclaimed(a) \/ arch[t].failed)

\* The cleanup of an archived task has ended without a failure, and an attempt
\* of the task that had a worktree is reclaimed.
C20_Witness ==
    \E t \in TaskIds, a \in AttemptIds :
        /\ tasks[t].status = "archived"
        /\ arch[t] = NoArchive
        /\ HasContainerRef(t, a)
        /\ Reclaimed(a)

\* The cleanup task of t ends in this step without a failure of its own.
ArchiveCompletes(t) == arch[t].pc # "idle" /\ arch'[t] = NoArchive

\* No task or attempt row, and no process of an attempt, goes away in the step.
RowsKept ==
    /\ \A t \in TaskIds : tasks[t].exists => tasks'[t].exists
    /\ \A a \in AttemptIds : attempts[a].exists => attempts'[a].exists
    /\ \A a \in AttemptIds : aproc[a] # "none" => aproc'[a] # "none"

\* C21 (as claimed): when the archive cleanup of a task completes, every
\* attempt of the task is flagged worktree_deleted, with or without a
\* container reference and also when the task had no worktree to reclaim, and
\* no task, attempt or process row has been deleted.
C21_ArchiveMarksEveryAttempt ==
    [][\A t \in TaskIds :
          ArchiveCompletes(t) =>
             /\ \A a \in AttemptIds :
                   (attempts'[a].exists /\ attempts'[a].task = t)
                      => attempts'[a].worktree_deleted
             /\ RowsKept]_vars

\* C22 (as claimed): in every state, an attempt with a container reference
\* whose worktree_deleted flag is false has its worktree on disk, the states
\* between the removal and the UPDATE of the flag and the states after a
\* cleanup that removed some worktrees and failed included.
C22_WorktreeUntilFlagged ==
    \A a \in AttemptIds :
        (attempts[a].exists /\ attempts[a].container_ref /\ ~attempts[a].worktree_deleted)
           => a \in worktrees

\* The cleanup of t fails at the removal of the worktrees in this step.
CleanupFails(t) == arch[t].pc = "cleanup" /\ arch'[t].pc = "idle"

\* C24: when the worktree cleanup of an archived task fails, no
\* worktree_deleted flag is written: every attempt of the task keeps the flag
\* it had, and the attempts with a container reference are taken up again by
\* the next cleanup of the task.
C24_FailedCleanupMarksNothing ==
    [][\A t \in TaskIds : CleanupFails(t) => (attempts' = attempts /\ arch'[t].failed)]_vars

\* A cleanup has removed one worktree of a task, failed on another, and both
\* attempts are unflagged.
C24_Witness ==
    \E t \in TaskIds, a, b \in AttemptIds :
        /\ arch[t] = [NoArchive EXCEPT !.failed = TRUE]
        /\ HasContainerRef(t, a) /\ HasContainerRef(t, b)
        /\ a \in worktrees /\ b \notin worktrees
        /\ ~attempts[a].worktree_deleted /\ ~attempts[b].worktree_deleted

(***************************************************************************)
(*                PROPERTIES OF THE execution_runs TABLE                   *)
(***************************************************************************)

\* C23: the worktree_deleted flag of a run is false when the run record is
\* created, and no step of an archive (repeated, or after an un-archive), of
\* mark_worktree_deleted or of update_container_ref takes the flag of an
\* attempt or of a run from true to false.
C23_FlagMonotonic ==
    [][/\ \A a \in AttemptIds :
             (attempts[a].exists /\ attempts[a].worktree_deleted)
                => (attempts'[a].exists /\ attempts'[a].worktree_deleted)
       /\ \A r \in RunUuids :
             /\ (~execution_runs[r].exists /\ execution_runs'[r].exists)
                   => ~execution_runs'[r].worktree_deleted
             /\ (execution_runs[r].exists /\ execution_runs[r].worktree_deleted)
                   => (execution_runs'[r].exists /\ execution_runs'[r].worktree_deleted)]_vars

\* A run flagged deleted has been given a container reference, and a flagged
\* attempt sees the cleanup of its task spawned once more.
C23_Witness ==
    /\ \E r \in RunUuids : /\ execution_runs[r].worktree_deleted
                           /\ execution_runs[r].container_ref # NoContainerRef
    /\ \E a \in AttemptIds : /\ attempts[a].exists /\ attempts[a].worktree_deleted
                             /\ arch[attempts[a].task].pc = "spawned"

\* C27 (as claimed): no two execution runs hold the same non-null container
\* reference, so a container reference selects at most one run.
C27_ContainerRefUnique ==
    \A r1, r2 \in RunUuids :
        (/\ r1 # r2
         /\ execution_runs[r1].exists /\ execution_runs[r2].exists
         /\ execution_runs[r1].container_ref # NoContainerRef)
           => execution_runs[r1].container_ref # execution_runs[r2].container_ref

\* The run record is created in this step.
Created(r) == ~execution_runs[r].exists /\ execution_runs'[r].exists

\* C28: the run record created for run id r has the branch "run/" followed by
\* the first 8 characters of r, whatever the rest of the request, the base
\* branch of the request or "main" as its target branch, no container
\* reference and worktree_deleted false.
C28_RunRecordAtCreate ==
    [][\A r \in RunUuids :
          Created(r) =>
             LET row == execution_runs'[r]
             IN /\ Len(row.branch) = 12
                /\ SubSeq(row.branch, 1, 4) = "run/"
                /\ SubSeq(row.branch, 5, 12) = SubSeq(r, 1, 8)
                /\ created'.run_id = r
                /\ row.target_branch = IF created'.base_branch = "absent" THEN "main"
                                        ELSE created'.base_branch
                /\ row.container_ref = NoContainerRef
                /\ ~row.worktree_deleted]_vars

\* Runs created with and without a base branch; two run ids with the same
\* first 8 characters have the same branch.
C28_Witness ==
    \E r1, r2 \in RunUuids :
        /\ r1 # r2
        /\ execution_runs[r1].exists /\ execution_runs[r2].exists
        /\ execution_runs[r1].target_branch = "main"
        /\ execution_runs[r2].target_branch = "dev"
        /\ created.run_id = r2
        /\ execution_runs[r1].branch = execution_runs[r2].branch

(***************************************************************************)
(*                  PROPERTIES OF THE WEBSOCKET LOOPS                      *)
(***************************************************************************)

\* One direction of loop l is closed: the upstream stream is over, or the
\* client has closed its side.
EitherClosed(l) == ws[l].upstream # "open" \/ ws[l].client = "closed"

\* C29 (as claimed): each of the two loops ends once either direction is
\* closed, also when the client has closed and the upstream yields nothing
\* further.
C29_LoopsEndOnClose == \A l \in Loops : EitherClosed(l) ~> ws[l].pc = "done"

\* The logs loop alone ends once either direction is closed.
LogsLoopEndsOnClose == EitherClosed("logs") ~> ws["logs"].pc = "done"

(***************************************************************************)
(*                  PROPERTIES OF THE FILE WATCHER                         *)
(***************************************************************************)

\* C30: once set, pending_reload is cleared only by a reload that succeeds, a
\* failed reload leaves it set, and when reloads succeed in the end a reload
\* after the event completes: the flag is cleared and the change is loaded.
C30_PendingUntilReloaded ==
    /\ [][/\ (watch.pending_reload /\ ~watch'.pending_reload) => watch'.last = "ok"
          /\ watch'.last = "failed" => watch'.pending_reload]_vars
    /\ watch.pending_reload ~> (~watch.pending_reload /\ ~watch.stale)

\* A reload has failed and the flag is still set.
C30_Witness == watch.last = "failed" /\ watch.pending_reload /\ watch.stale

\* A reload is attempted in this step.
ReloadAttempted == watch'.last # "none" /\ watch'.events = watch.events /\ watch' # watch

\* C31 (as claimed): a reload is triggered only when the quiet period of the
\* debounce has passed since the most recent relevant event, so that the
\* events of a burst are coalesced into one reload.
C31_ReloadAfterQuietPeriod ==
    [][ReloadAttempted => watch'.quiet >= DebounceTicks]_vars

\* What the loop does keep: a reload is attempted only on a turn of 100 ms
\* without an event, with the flag set and the debounce passed since the
\* last successful reload.
ReloadAfterTimeout ==
    [][ReloadAttempted =>
          (watch.queue = <<>> /\ watch.pending_reload /\ watch'.quiet >= 1
             /\ Later(watch.since, 1) >= DebounceTicks)]_vars

\* A burst that stops is followed by a reload attempt.
BurstFollowedByReload == watch.pending_reload ~> (watch.last # "none")

(***************************************************************************)
(*                   PROPERTIES OF THE MCP SERVER                          *)
(***************************************************************************)

\* The supported versions that are not newer than version r.
NotNewer(r) == {s \in {V_2025_03_26, V_2024_11_05} : s <= r}

\* C40: an initialize whose requested version compares and is not older than
\* the oldest supported one answers the newest supported version not newer
\* than the requested one, and stores it; any other initialize answers
\* invalid-params and leaves the stored version as it was; get_info reports
\* the stored version.
C40_NegotiatedVersion ==
    /\ mcp.answer.op = "initialize" =>
          LET r == mcp.answer.requested
          IN IF r # Incomparable /\ r >= V_2024_11_05
             THEN /\ mcp.answer.ok /\ mcp.answer.error = "none"
                  /\ mcp.answer.protocol_version = Newest(NotNewer(r))
                  /\ mcp.negotiated_protocol_version = mcp.answer.protocol_version
             ELSE /\ ~mcp.answer.ok /\ mcp.answer.error = "invalid_params"
                  /\ mcp.negotiated_protocol_version = mcp.answer.before
    /\ mcp.answer.op = "get_info" =>
          mcp.answer.protocol_version = mcp.negotiated_protocol_version
    /\ mcp.negotiated_protocol_version \in {V_2025_03_26, V_2024_11_05}

\* A request too old was refused after an older supported version had been
\* negotiated, and the stored version is still that one.
C40_Witness ==
    /\ mcp.answer.op = "initialize" /\ ~mcp.answer.ok
    /\ mcp.answer.requested = 1
    /\ mcp.answer.before = V_2024_11_05
    /\ mcp.negotiated_protocol_version = V_2024_11_05

(***************************************************************************)
(*                   PROPERTIES OF THE PROFILE CACHE                       *)
(***************************************************************************)

\* The caches that live on: made and initialized, held by the map, a caller
\* or a watcher thread.
LiveCaches == {k \in Callers : pcache[k].made /\ goc[k].pc \in {"store", "done", "idle"}}
WatcherThreads == {k \in Callers : pcache[k].watching}

\* C38 (as claimed): whatever the interleaving of get_or_create calls for one
\* path, one ProfileCache is made for it and one watcher thread started, and
\* all callers are answered with that cache.
C38_OneCachePerPath ==
    /\ Cardinality(LiveCaches) <= 1
    /\ Cardinality(WatcherThreads) <= 1
    /\ \A c, o \in Callers :
          (goc[c].pc = "done" /\ goc[o].pc = "done"
              /\ goc[c].result # "error" /\ goc[o].result # "error")
                 => goc[c].result = goc[o].result

\* Once the map holds a cache, a call that starts is answered with it and
\* makes none.
HitReturnsStored ==
    [][\A c \in Callers :
          (goc[c].pc = "idle" /\ goc'[c].pc # "idle" /\ caches_by_path # NoCache)
              => (goc'[c].pc = "done" /\ goc'[c].result = caches_by_path
                    /\ pcache' = pcache)]_vars

\* C39 (as claimed): whenever no update holds a lock of a cache, its count is
\* the number of variants of its profiles.
C39_CountMatchesProfiles ==
    \A k \in Callers :
        (pcache[k].made /\ pcache[k].profiles_lock = "none" /\ pcache[k].count_lock = "none")
            => pcache[k].last_count = count_variants(pcache[k].profiles)

\* The same for the caches whose initialize has ended: what reload keeps.
ReloadKeepsCount ==
    \A k \in Callers :
        (pcache[k].made /\ goc[k].pc # "count"
           /\ pcache[k].profiles_lock = "none" /\ pcache[k].count_lock = "none")
            => pcache[k].last_count = count_variants(pcache[k].profiles)

(***************************************************************************)
(*                   PROPERTIES OF THE HIDDEN SET'S LOCK                   *)
(***************************************************************************)

\* The refresher's query returns in this step / the fallback's point lookup
\* returns in this step / the write lock is taken by the refresher.
RefreshQueried == refresh.pc = "tick" /\ refresh'.pc = "queried"
LookedUp == filt.pc = "db" /\ filt'.pc # "db"
RefreshLocked == cacheWriter = "none" /\ cacheWriter' = "refresh"

\* C32: no writer of the hidden set holds the write lock while a store query
\* of its own is in flight: the refresher's query and the fallback's point
\* lookup run with the lock free of their task, the refresher takes the lock
\* only once its query has returned, and the fallback's write access is the
\* insert alone.
C32_NoQueryUnderWriteLock ==
    [][/\ RefreshQueried => cacheWriter # "refresh"
       /\ LookedUp => cacheWriter # "filter"
       /\ RefreshLocked => (refresh.pc = "queried" /\ refresh'.pc = "locked")
       /\ cacheWriter' \in {"none", "refresh"}
       /\ (agent_task_ids' # agent_task_ids /\ refresh' = refresh)
              => (filt.pc = "insert" /\ cacheWriter = "none" /\ cacheWriter' = "none")]_vars

\* The fallback has its answer from the store and waits for the write lock,
\* which the refresher holds after its own query.
C32_Witness ==
    /\ cacheWriter = "refresh" /\ refresh.pc = "locked"
    /\ filt.pc = "insert"

(***************************************************************************)
(*                   PROPERTIES OF THE KANBAN STREAM                       *)
(***************************************************************************)

\* The filter has given its verdict on the patch in hand.
PatchGiven == filt.pc = "given" /\ filt.msg.type = "patch"

\* Operation o adds or replaces the task it embeds.
Upserts(o) == o.path = "task" /\ o.op \in {"add", "replace"} /\ o.value.wf

\* C1 (as claimed): whatever the number of operations of a patch, an add or
\* replace of a task whose id is in the hidden set at filter time is never
\* emitted, and every patch with a remove is emitted.
C1_HiddenNeverEmitted ==
    PatchGiven =>
        /\ verdict.v = "emit" =>
              \A i \in 1..Len(filt.msg.ops) :
                  Upserts(filt.msg.ops[i]) => filt.msg.ops[i].id \notin verdict.hidden
        /\ (\E i \in 1..Len(filt.msg.ops) : filt.msg.ops[i].op = "remove")
              => verdict.v = "emit"

\* C9: no read of the hidden set by the filter sees it between the writes of
\* one update: each read sees the set as some writer left it on release.
C9_NoTornRead == ~tornRead

\* A read is pending while the refresh holds the set cleared.
C9_Witness ==
    /\ filt.pc = "read" /\ refresh.pc = "cleared"
    /\ agent_task_ids = {} /\ committed # {} /\ filt.id \in committed

\* C10: a patch that adds or replaces a task whose embedded status is agent is
\* dropped, also when neither the hidden set nor the lookup knows the id.
C10_AgentStatusDropped ==
    (filt.pc = "given" /\ IsTaskUpsert(filt.msg)
        /\ filt.msg.ops[1].value.status = "agent")
            => verdict.v = "drop"

C10_Witness ==
    /\ filt.pc = "given" /\ IsTaskUpsert(filt.msg)
    /\ filt.msg.ops[1].value.status = "agent"
    /\ filt.msg.ops[1].id \notin verdict.hidden
    /\ filt.msg.ops[1].id \notin forge_agents
    /\ verdict.v = "drop"

\* The status embedded in the task whose id the filter is checking.
CurStatus ==
    IF IsTaskUpsert(filt.msg) THEN filt.msg.ops[1].value.status
    ELSE Entry(filt.msg.ops[1].obj, filt.id).status

\* The snapshot entries kept so far, after the step.
KeptNext == IF filt'.pc = "given" THEN verdict'.kept ELSE filt'.kept

\* The step treats the task in hand as hidden: its patch is dropped, its
\* snapshot entry is not kept.
DroppedNow == IF IsTaskUpsert(filt.msg) THEN verdict'.v = "drop" ELSE filt.id \notin KeptNext

\* The check of filt.id ends in this step with the answer "not hidden".
AnswersVisible == filt'.pc # "insert" /\ (CurStatus # "agent" => ~DroppedNow)

\* A hit in the hidden set is answered without a store lookup.
AnsweredFromSet ==
    (filt.pc = "read" /\ filt'.pc # "read" /\ filt.id \in agent_task_ids)
        => (filt'.pc \notin {"db", "insert"} /\ DroppedNow
            /\ agent_task_ids' = agent_task_ids)

\* The insert after a lookup that found the row: the id enters the hidden set
\* and the task is treated as hidden.
InsertedAfterLookup ==
    (filt.pc = "insert" /\ filt'.pc # "insert")
        => (agent_task_ids' = agent_task_ids \cup {filt.id} /\ DroppedNow)

\* C11 (as claimed): a check of an id that misses the hidden set and has a
\* forge_agents row reports the task hidden and inserts the id; a later check
\* of the id is answered from the set; with no row the set is left unchanged.
C11_MissWithRowIsHidden ==
    [][/\ (filt.pc = "db" /\ filt'.pc # "db") =>
              IF filt.id \in forge_agents THEN filt'.pc = "insert"
              ELSE AnswersVisible /\ agent_task_ids' = agent_task_ids
       /\ InsertedAfterLookup
       /\ AnsweredFromSet]_vars

\* C11 (amended): the lookup confirms an id only if it has a forge_agents row;
\* a confirmed id is inserted into the hidden set and its task treated as
\* hidden, and a later check of it is answered from the set without a lookup;
\* a lookup that does not confirm (no row, or the query failed) answers "not
\* hidden" and leaves the set unchanged.
C11_ConfirmedMissIsInserted ==
    [][/\ (filt.pc = "db" /\ filt'.pc # "db") =>
              IF filt'.pc = "insert" THEN filt.id \in forge_agents
              ELSE AnswersVisible /\ agent_task_ids' = agent_task_ids
       /\ (filt.pc = "db" /\ filt.id \notin forge_agents) => filt'.pc # "insert"
       /\ InsertedAfterLookup
       /\ AnsweredFromSet]_vars

\* The lookup has confirmed an id that the hidden set missed; the insert is due.
C11_Witness ==
    /\ filt.pc = "insert" /\ IsTaskUpsert(filt.msg) /\ filt.msg.ops[1].value.status = "todo"
    /\ filt.id \in forge_agents /\ filt.id \notin agent_task_ids

\* The entries of the incoming snapshot, by id.
SnapshotIds(o) == {x.id : x \in o}

\* The filter has rewritten the snapshot in hand.
SnapshotGiven == filt.pc = "given" /\ IsSnapshot(filt.msg) /\ verdict.v = "rewrite"

\* C12 (as claimed): the emitted snapshot holds exactly the entries of the
\* incoming one whose id is not hidden and whose status is not agent.
C12_SnapshotExact ==
    SnapshotGiven =>
        verdict.kept = {k \in SnapshotIds(filt.msg.ops[1].obj) :
                           /\ k \notin verdict.hidden
                           /\ Entry(filt.msg.ops[1].obj, k).status # "agent"}

\* The kept entries parse as tasks and none has status agent; an entry that
\* parses is left out only if its status is agent or its id has a forge_agents
\* row (the hidden set holds no other ids).
SnapshotKept ==
    SnapshotGiven =>
        LET o == filt.msg.ops[1].obj
            tasksIn == {x.id : x \in {y \in o : y.value.wf}}
        IN /\ verdict.kept \subseteq tasksIn
           /\ \A k \in verdict.kept : Entry(o, k).status # "agent"
           /\ \A k \in tasksIn \ verdict.kept :
                 Entry(o, k).status = "agent" \/ k \in forge_agents

\* C12 (amended): the emitted snapshot holds exactly the entries that parse as
\* a task, whose status is not agent and whose id the check did not find
\* hidden; an entry that does not parse is left out, and no entry found in the
\* hidden set at its check is kept.
C12_SnapshotParsedExact ==
    /\ []SnapshotKept
    /\ [][(filt.pc = "read" /\ filt'.pc # "read" /\ ~IsTaskUpsert(filt.msg)
            /\ filt.id \in agent_task_ids) => filt.id \notin KeptNext]_vars

\* A snapshot of two parsed entries was rewritten: one kept, one hidden.
C12_Witness ==
    /\ SnapshotGiven
    /\ SnapshotIds(filt.msg.ops[1].obj) = StreamIds
    /\ \A k \in StreamIds : Entry(filt.msg.ops[1].obj, k).wf
    /\ \A k \in StreamIds : Entry(filt.msg.ops[1].obj, k).status = "todo"
    /\ Cardinality(verdict.kept) = 1
    /\ verdict.kept \cap verdict.hidden = {}

\* The messages the filter has no business with: another LogMsg, an error, an
\* empty patch, and a patch whose first operation is on another path, is a
\* remove, or is neither the snapshot nor an add/replace of a task that parses.
PassedThrough(m) ==
    \/ m.type \in {"other", "err"}
    \/ /\ m.type = "patch"
       /\ \/ Len(m.ops) = 0
          \/ m.ops[1].path = "else"
          \/ m.ops[1].op \in {"remove", "test"}
          \/ m.ops[1].path = "tasks" /\ ~m.ops[1].isObj
          \/ m.ops[1].path = "task" /\ ~m.ops[1].value.wf

\* An add or replace of a task that is neither hidden nor of status agent.
VisibleUpsert(m) ==
    /\ m.type = "patch" /\ Len(m.ops) > 0
    /\ m.ops[1].path = "task" /\ m.ops[1].op \in {"add", "replace"} /\ m.ops[1].value.wf
    /\ m.ops[1].value.status # "agent"
    /\ m.ops[1].id \notin forge_agents

C26_FetchTrackedOnly ==
    [][gitRes'.op = "fetch" =>
          LET upstreamed == {b \in Branches : b \in tracked /\ remoteRef[b] # NoRef}
          IN /\ \A b \in Branches \ upstreamed : remoteRef'[b] = remoteRef[b]
             /\ local' = local /\ tree' = tree
             /\ gitRes'.ok =>
                   /\ gitRes'.branches_fetched = Cardinality(upstreamed)
                   /\ \A b \in upstreamed : remoteRef'[b] = origin[b]]_vars

\* A fetch has succeeded on a repository with one branch with an upstream and
\* one without, whose remote-tracking ref is not the origin's head.
C26_Witness ==
    /\ gitRes.op = "fetch" /\ gitRes.ok /\ gitRes.branches_fetched = 1
    /\ \E b \in Branches : b \notin tracked /\ remoteRef[b] # origin[b]
    /\ \E b \in tracked : remoteRef[b] = origin[b] /\ origin[b] > 0

\* C25: a pull with a working tree that is not clean, or of a branch other
\* than the current one, fails before the fetch: no remote-tracking ref, no
\* local branch and not the working tree is changed; with both at fault the
\* error is the working tree's, the clean-tree check coming first.
C25_PullRefusedBeforeFetch ==
    [][(gitRes'.op = "pull" /\ (dirty \/ current # gitRes'.branch)) =>
          /\ ~gitRes'.success /\ ~gitRes'.fetched
          /\ gitRes'.error = IF dirty THEN "dirty" ELSE "wrong_branch"
          /\ remoteRef' = remoteRef /\ local' = local /\ tree' = tree]_vars

\* A pull of a tracked branch that is behind its origin has been refused on a
\* dirty tree while another branch is checked out.
C25_Witness ==
    /\ gitRes.op = "pull" /\ gitRes.error = "dirty"
    /\ dirty /\ current # gitRes.branch
    /\ gitRes.branch \in tracked
    /\ remoteRef[gitRes.branch] < origin[gitRes.branch]

\* The last operation was a pull that got past its fetch on a branch with upstream.
PullFetched == gitRes.op = "pull" /\ gitRes.fetched /\ gitRes.branch \in tracked

\* (ahead, behind) of the pulled branch after the fetch, from the refs themselves.
PulledAB ==
    graph_ahead_behind(gitRes.pre_local[gitRes.branch], RTip(remoteRef[gitRes.branch]))

PullFrame == local = gitRes.pre_local /\ tree = gitRes.pre_tree

\* C33: a pull that returns Ok with ahead = 0 and behind > 0 after the fetch
\* leaves the local tip and the tree at the upstream tip (ahead = behind = 0
\* afterwards) and reports commits_pulled = behind; Merge and FastForward both
\* run the fast-forward-only merge, and the new tip is a commit of the remote
\* line, never a commit made by the pull.
C33_FastForwardPull ==
    (PullFetched /\ gitRes.success /\ PulledAB.ahead = 0 /\ PulledAB.behind > 0)
        => LET b == gitRes.branch
           IN /\ local[b] = RTip(remoteRef[b])
              /\ remoteRef[b] = origin[b]
              /\ tree = local[b]
              /\ graph_ahead_behind(local[b], RTip(remoteRef[b])) = [ahead |-> 0, behind |-> 0]
              /\ gitRes.commits_pulled = PulledAB.behind
              /\ gitRes.commits_pulled =
                     Cardinality(Reach(RTip(origin[b])) \ Reach(gitRes.pre_local[b]))
              /\ gitRes.ran = IF gitRes.strategy = "Rebase" THEN "rebase" ELSE "merge_ff_only"
              /\ \A c \in Branches \ {b} : local[c] = gitRes.pre_local[c]

C33_Witness ==
    /\ PullFetched /\ gitRes.success /\ gitRes.strategy = "Merge"
    /\ PulledAB.ahead = 0 /\ gitRes.commits_pulled = 2
    /\ local[gitRes.branch] = RTip(2) /\ gitRes.pre_local[gitRes.branch] = RTip(0)

\* C6 (as claimed): a pull with ahead > 0 after the fetch fails with a divergence
\* error whatever behind is, and leaves tree and local tip unchanged.
C6_AheadAlwaysDiverged ==
    (PullFetched /\ PulledAB.ahead > 0)
        => (~gitRes.success /\ gitRes.error = "diverged" /\ PullFrame)

\* C6 (amended): a pull with ahead > 0 and behind > 0 after the fetch fails with a
\* divergence error for every strategy; with ahead > 0 and behind = 0 it is the
\* no-op success; in both cases tree and local tip are unchanged.
C6_DivergedPullFails ==
    (PullFetched /\ PulledAB.ahead > 0)
        => /\ PullFrame
           /\ gitRes.ran = "none"
           /\ IF PulledAB.behind > 0
              THEN ~gitRes.success /\ gitRes.error = "diverged"
              ELSE gitRes.success /\ gitRes.commits_pulled = 0

C6_Witness ==
    /\ PullFetched /\ PulledAB.ahead > 0 /\ PulledAB.behind > 0
    /\ gitRes.strategy = "Rebase" /\ gitRes.error = "diverged"

\* C7: a pull with behind = 0 after the fetch is a success with commits_pulled = 0,
\* runs no merge or rebase and leaves tree and local tip unchanged; an error has
\* success = FALSE and a pull that ran a command has commits_pulled > 0.
C7_NoOpPull ==
    /\ (PullFetched /\ PulledAB.behind = 0)
          => /\ gitRes.success /\ gitRes.error = "none"
             /\ gitRes.commits_pulled = 0
             /\ gitRes.ran = "none"
             /\ PullFrame
    /\ (gitRes.op = "pull" /\ gitRes.ran # "none")
          => (gitRes.success /\ gitRes.commits_pulled > 0)

C7_Witness ==
    /\ PullFetched /\ PulledAB.behind = 0 /\ PulledAB.ahead > 0
    /\ gitRes.success /\ gitRes.commits_pulled = 0

\* C8 (as claimed): every reported branch has is_diverged iff ahead>0 and behind>0,
\* is_up_to_date iff both are zero, needs_pull iff behind>0 and ahead=0, needs_push
\* iff ahead>0 and behind=0, hence exactly one flag set.
C8_SyncFlags ==
    gitRes.op = "sync" =>
        \A st \in gitRes.branches :
            LET ab == graph_ahead_behind(local[st.branch_name],
                                         RTip(remoteRef[st.branch_name]))
                flags == <<st.is_diverged, st.is_up_to_date, st.needs_pull, st.needs_push>>
            IN /\ st.is_diverged   <=> (ab.ahead > 0 /\ ab.behind > 0)
               /\ st.is_up_to_date <=> (ab.ahead = 0 /\ ab.behind = 0)
               /\ st.needs_pull    <=> (ab.behind > 0 /\ ab.ahead = 0)
               /\ st.needs_push    <=> (ab.ahead > 0 /\ ab.behind = 0)
               /\ Cardinality({i \in 1..4 : flags[i]}) = 1

====
